---- MODULE Spec2Model ----
(***************************************************************************)
(* Model of the execution core of the Bob build tool                       *)
(* (pym/bob/cmds/build.py, class LocalBuilder).                            *)
(*                                                                         *)
(* One state machine models LocalBuilder.cook(): the dispatcher, the       *)
(* _cookTask/_cook/_cookStep frames with the runners semaphore and the     *)
(* cookTasks/buildIdTasks trackers, and the three step executors           *)
(* (_cookCheckoutStep, _cookBuildStep, _cookPackageStep) acting on the     *)
(* persistent store (BobState) and on the workspaces.                      *)
(*                                                                         *)
(* Every executor segment between two awaits is one action.  The store     *)
(* and filesystem operations of a segment are a list of primitive          *)
(* operations.  Under Spec (the scheduler view) the list is applied at     *)
(* once, as the single-threaded event loop does.  Under SpecStore (the     *)
(* crash view) the list is queued in `pending` and applied one operation   *)
(* at a time, a crash may hit between any two of them, and further runs    *)
(* follow.                                                                 *)
(*                                                                         *)
(* Further views: repeated runs (SpecRuns), download modes (SpecDl),       *)
(* live build-ids with the restart of a pass after a wrongly predicted     *)
(* build-id (SpecLive, SpecLivePair).                                      *)
(*                                                                         *)
(* Further views: exceptions that are no BuildError (SpecExc), the build    *)
(* state saved for --resume (SpecResume), the develop-dir oracle           *)
(* (SpecDirs), the cleaning of a workspace (SpecEmpty) and the SCM         *)
(* directories of a checkout (SpecCheckout).                               *)
(*                                                                         *)
(* Left out of the views on cook(): --clean-checkout (it is part of the    *)
(* checkout view), uploads, the execution inside a sandbox                 *)
(* and the audit files.  The build-id                                      *)
(* tasks of the dependencies of a step are folded into the one             *)
(* __getBuildIdTask frame of the step, which predicts or cooks the         *)
(* checkout steps the build-id needs.  _wasAlreadyRun never meets a stale  *)
(* entry, because the variant-ids do not change while a process runs.      *)
(* Tasks that wait for a job slot get it in any order.                     *)
(***************************************************************************)
EXTENDS Integers, Sequences, FiniteSets, TLC

(***************************************************************************)
(* Bounds of the model.                                                    *)
(***************************************************************************)
MaxJobs == 2
MaxRuns == 3
MaxBuilds == 2
MaxModeCalls == 2
MaxDlRuns == 2
NumRecipes == 2

(***************************************************************************)
(* Program constants.                                                      *)
(***************************************************************************)
NoDownload == 65535

(***************************************************************************)
(* The package graph handed to cook(): package app (checkout, build,       *)
(* package step) whose checkout and build both use the tool package, and   *)
(* the independent package lib.  tool and lib have a package step only     *)
(* (their checkout and build steps are not valid and are filtered by       *)
(* isValid() everywhere).                                                  *)
(***************************************************************************)
Steps == {"a_src", "a_build", "a_dist", "t_dist", "l_dist"}

isCheckoutStep(s) == s = "a_src"

isBuildStep(s) == s = "a_build"

isPackageStep(s) == s \in {"a_dist", "t_dist", "l_dist"}

getPackage(s) ==
    CASE s \in {"a_src", "a_build", "a_dist"} -> "app"
      [] s = "t_dist" -> "tool"
      [] OTHER -> "lib"

\* step.getAllDepSteps(): arguments, then tools
getAllDepSteps(s) ==
    CASE s = "a_src" -> <<"t_dist">>
      [] s = "a_build" -> <<"a_src", "t_dist">>
      [] s = "a_dist" -> <<"a_build">>
      [] OTHER -> <<>>

\* packageStep.getPackage().getCheckoutStep(), when it is valid
getCheckoutStep(s) == IF getPackage(s) = "app" THEN <<"a_src">> ELSE <<>>

Range(q) == {q[i] : i \in 1..Len(q)}

(***************************************************************************)
(* Values of the store and of the workspaces.  Every value is a tuple      *)
(* headed by a tag.                                                        *)
(***************************************************************************)
PyNone == <<"None">>

\* datetime.datetime.utcnow(): the "currently running" mark of a result hash
Sentinel == <<"datetime">>

PyList(q) == <<"list", q>>

\* a variant of PyBytes: the build-id wrapped in a list
PyBytesInList(b) == <<"list", <<b>>>>

PyBytes(b) == <<"bytes", b>>

isList(v) == v[1] = "list"

isBytes(v) == v[1] = "bytes"

\* workspace contents
Absent == <<"absent">>

Empty == <<"empty">>

Partial(s) == <<"partial", s>>

Out(s, from) == <<"out", s, from>>

Downloaded(s, bid) == <<"download", s, bid>>

\* hashWorkspace(step): the digest of the directory content
hashWorkspace(content) == <<"hash", content>>

isContentHash(v) == v[1] = "hash"


(***************************************************************************)
(* State.                                                                  *)
(*   cfg     the options of the current invocation (constructor and        *)
(*           setter arguments of LocalBuilder, arguments of cook())        *)
(*   mem     the fields of the LocalBuilder object and the frames of its   *)
(*           coroutines (lost when the process ends)                       *)
(*   disk    the persistent store BobState and the workspaces              *)
(*   pending store/filesystem operations of the running segment that are   *)
(*           not yet executed (always empty under Spec)                    *)
(*   hist    history of the run, read by the properties only               *)
(***************************************************************************)
VARIABLES cfg, mem, disk, pending, hist

vars == <<cfg, mem, disk, pending, hist>>

(***************************************************************************)
(* Frames: the dispatcher task D, one _cookTask frame per root step, one   *)
(* _cookStep frame per step and one __getBuildIdTask frame per             *)
(* non-checkout step.  With jobs > 1 every frame is an asyncio task; with  *)
(* jobs = 1 only D is a task and the other frames are nested calls.        *)
(***************************************************************************)
RootFrame(s) == CASE s = "a_dist" -> "R_a_dist" [] OTHER -> "R_l_dist"

BidFrame(s) ==
    CASE s = "a_build" -> "B_a_build"
      [] s = "a_dist" -> "B_a_dist"
      [] s = "t_dist" -> "B_t_dist"
      [] OTHER -> "B_l_dist"

RootFrames == {"R_a_dist", "R_l_dist"}

BidFrames == {"B_a_build", "B_a_dist", "B_t_dist", "B_l_dist"}

Frames == {"D"} \cup RootFrames \cup Steps \cup BidFrames

StepOf(f) ==
    CASE f \in {"R_a_dist", "B_a_dist"} -> "a_dist"
      [] f = "R_l_dist" -> "l_dist"
      [] f = "B_l_dist" -> "l_dist"
      [] f = "B_a_build" -> "a_build"
      [] f = "B_t_dist" -> "t_dist"
      [] OTHER -> f

Done == {"ok", "failed", "cancelled"}

Yielded == {"deps", "getbid", "audit"}

(***************************************************************************)
(* Recipe-derived identities.                                              *)
(***************************************************************************)
\* the part of a step's definition that the recipe version changes
ownDefinition(s) == IF getPackage(s) = "app" /\ isCheckoutStep(s) THEN cfg.recipe ELSE 1

RECURSIVE getVariantId(_)
\* step.getVariantId(): digest of the step's definition and of the
\* variant-ids of its dependencies
getVariantId(s) ==
    LET deps == getAllDepSteps(s)
    IN  <<"vid", s, ownDefinition(s), [i \in 1..Len(deps) |-> getVariantId(deps[i])]>>

\* checkoutStep.getScmDirectories(): one SCM in sub-directory "sub"
getScmDirectories(s) == <<"scm", cfg.recipe>>

getExecPath(s) == <<"exec", s>>

\* checkoutStep.isDeterministic(): false for an SCM that follows a branch
isDeterministic(s) == s \notin cfg.nondet

\* a variant of isRelocatable: every package is taken for relocatable
isRelocatableAll(s) == TRUE

isRelocatable(s) == s \in cfg.relocatable

\* packageStep.getSandbox(): None unless the step is built in a sandbox
getSandbox(s) == IF s \in cfg.sandbox THEN <<"sandbox", s>> ELSE PyNone

\* __getIncrementalVariantId (lines 1471-1497): the digest with the stored
\* variant-ids of the dependencies, the real one where none is stored
getStoredVId(d, dep) ==
    IF d.variantId[dep] = PyNone THEN getVariantId(dep) ELSE d.variantId[dep]

getIncrementalVariantId(d, s) ==
    LET deps == getAllDepSteps(s)
    IN  <<"vid", s, ownDefinition(s), [i \in 1..Len(deps) |-> getStoredVId(d, deps[i])]>>

RECURSIVE buildIdOf(_, _, _)
\* __getBuildIdSingle (lines 1430-1445): for a checkout step the cached
\* src-build-id or else its result hash, for any other step the digest over
\* the build-ids of its dependencies
buildIdOf(src, d, s) ==
    IF isCheckoutStep(s)
    THEN IF src[s] /= PyNone THEN src[s][1] ELSE d.resultHash[s]
    ELSE LET deps == getAllDepSteps(s)
         IN  <<"bid", s, ownDefinition(s),
               [i \in 1..Len(deps) |-> buildIdOf(src, d, deps[i])]>>

RECURSIVE checkoutClosure(_)
\* the checkout steps whose build-id the build-id of s is computed from
checkoutClosure(s) ==
    IF isCheckoutStep(s) THEN <<s>>
    ELSE LET deps == getAllDepSteps(s)
             RECURSIVE cat(_)
             cat(i) == IF i > Len(deps) THEN <<>> ELSE checkoutClosure(deps[i]) \o cat(i + 1)
         IN  cat(1)

(***************************************************************************)
(* The persistent store and the filesystem: primitive operations.          *)
(***************************************************************************)
Op(name, path, val) == [op |-> name, path |-> path, val |-> val]

\* state of a checkout directory: the digest recorded for sub-directory
\* "sub" and the variant-id recorded under the key None
NoKey == <<"nokey">>

CheckoutState(sub, none) == <<"cs", sub, none>>

\* BobState().resetWorkspaceState(path, dirState): clears the result hash and
\* the input hashes and stores the directory state, in one step
resetWorkspaceState(d, path, val) ==
    [d EXCEPT !.dirState[path] = val, !.resultHash[path] = PyNone,
              !.inputHashes[path] = PyNone]

\* os.rename(scmPath, attic/<timestamp>_<name>), lines 1051-1058
atticRename(d, path) ==
    [d EXCEPT !.attic = @ \cup {d.ws[path]}, !.ws[path] = Empty]

ApplyOp(d, o) ==
    CASE o.op = "makedirs" -> [d EXCEPT !.ws[o.path] = Empty]
      [] o.op = "emptyDirectory" -> [d EXCEPT !.ws[o.path] = Empty]
      [] o.op = "resetWorkspaceState" -> resetWorkspaceState(d, o.path, o.val)
      [] o.op = "setDirectoryState" -> [d EXCEPT !.dirState[o.path] = o.val]
      [] o.op = "setResultHash" -> [d EXCEPT !.resultHash[o.path] = o.val]
      [] o.op = "setInputHashes" -> [d EXCEPT !.inputHashes[o.path] = o.val]
      [] o.op = "delInputHashes" -> [d EXCEPT !.inputHashes[o.path] = PyNone]
      [] o.op = "setVariantId" -> [d EXCEPT !.variantId[o.path] = o.val]
      [] o.op = "atticRename" -> atticRename(d, o.path)
      [] o.op = "runScript" -> [d EXCEPT !.ws[o.path] = Partial(o.path)]
      [] o.op = "setLiveBuildId" -> [d EXCEPT !.liveBuildId[o.path] = o.val]
      [] o.op = "delLiveBuildId" -> [d EXCEPT !.liveBuildId[o.path] = PyNone]
      [] o.op = "setTranslation" -> [d EXCEPT !.translated[o.path] = o.val]
      [] OTHER -> d

RECURSIVE ApplyAll(_, _)
ApplyAll(d, ops) == IF ops = <<>> THEN d ELSE ApplyAll(ApplyOp(d, Head(ops)), Tail(ops))

exists(d, path) == d.ws[path] /= Absent

\* the workspace holds something (an SCM sub-directory, build results)
hasContent(d, path) == d.ws[path] \notin {Absent, Empty}

\* _constructDir (lines 545-551) followed by the caller's pruning:
\* the operations, given the directory state the step wants
constructAndPrune(d, path, digest) ==
    LET created == ~exists(d, path)
    IN  (IF created THEN <<Op("makedirs", path, PyNone)>> ELSE <<>>)
        \o (IF created \/ digest /= d.dirState[path]
            THEN (IF ~created /\ exists(d, path)
                  THEN <<Op("emptyDirectory", path, PyNone)>> ELSE <<>>)
                 \o <<Op("resetWorkspaceState", path, digest)>>
            ELSE <<>>)

\* [ BobState().getResultHash(i.getWorkspacePath()) for i in steps if i.isValid() ]
resultHashes(d, steps) == PyList([i \in 1..Len(steps) |-> d.resultHash[steps[i]]])


(***************************************************************************)
(* In-memory state of LocalBuilder and of its coroutine frames.  Two        *)
(* fields are bookkeeping that only the properties read: live[f] counts    *)
(* the instances of frame f that were started and have not ended, and      *)
(* reusedFailed holds the pairs <<p, c>> of a frame p that asked for frame  *)
(* c after c had failed.                                                   *)
(***************************************************************************)
NoLocals ==
    [bid |-> PyNone, oldIH |-> PyNone, ih |-> PyNone, hash |-> PyNone, vid |-> PyNone,
     dl |-> "no"]

\* LocalBuilder.__init__ (lines 421-447)
InitMem ==
    [phase |-> "idle", running |-> FALSE, restart |-> FALSE, buildErrors |-> <<>>,
     runners |-> 0, cookTasks |-> {}, buildIdTasks |-> {},
     wasRun |-> [s \in Steps |-> PyNone], wasSkipped |-> [s \in Steps |-> FALSE],
     pc |-> [f \in Frames |-> "none"], tmode |-> [f \in Frames |-> FALSE],
     tdepth |-> [f \in Frames |-> 0], waiting |-> [f \in Frames |-> {}],
     todo |-> [f \in Frames |-> <<>>], childExc |-> [f \in Frames |-> "none"],
     cancelReq |-> [f \in Frames |-> FALSE], loc |-> [s \in Steps |-> NoLocals],
     live |-> [f \in Frames |-> 0], reusedFailed |-> {},
     srcBuildIds |-> [s \in Steps |-> PyNone], buildDistBuildIds |-> [s \in Steps |-> PyNone]]

\* _wasAlreadyRun (lines 519-532).  The deletion of an entry with another
\* variant-id is not modelled: such an entry answers False either way.
wasAlreadyRun(m, s, skippedOk) ==
    /\ m.wasRun[s] /= PyNone
    /\ m.wasRun[s] = getVariantId(s)
    /\ (skippedOk \/ ~m.wasSkipped[s])

\* _setAlreadyRun (lines 534-537)
setAlreadyRun(m, s, skipped) ==
    [m EXCEPT !.wasRun[s] = getVariantId(s), !.wasSkipped[s] = skipped]

\* the filters of _cook (lines 951-956)
cookFilter(m, steps, parentPackage, checkoutOnly) ==
    SelectSeq(steps, LAMBDA s : /\ (cfg.skipDeps => getPackage(s) = parentPackage)
                                /\ ~wasAlreadyRun(m, s, checkoutOnly))

\* with jobs > 1 every frame runs in a task of its own (wrapTask)
IsTask(f) == cfg.jobs > 1 \/ f = "D"

\* a variant of the tracker lookup that never finds a task
NeverRegistered(m, f) == FALSE

Registered(m, f) ==
    \/ f \in Steps /\ f \in m.cookTasks
    \/ f \in BidFrames /\ StepOf(f) \in m.buildIdTasks

Register(m, f) ==
    IF f \in Steps THEN [m EXCEPT !.cookTasks = @ \cup {f}]
    ELSE IF f \in BidFrames THEN [m EXCEPT !.buildIdTasks = @ \cup {StepOf(f)}]
    ELSE m

Deregister(m, f) ==
    IF f \in Steps THEN [m EXCEPT !.cookTasks = @ \ {f}]
    ELSE IF f \in BidFrames THEN [m EXCEPT !.buildIdTasks = @ \ {StepOf(f)}]
    ELSE m

NewFrame(m, c, mode, depth) ==
    [m EXCEPT !.pc[c] = "new", !.tmode[c] = mode, !.tdepth[c] = depth,
              !.waiting[c] = {}, !.todo[c] = <<>>, !.childExc[c] = "none",
              !.cancelReq[c] = FALSE, !.live[c] = @ + 1]

RECURSIVE createTask(_, _, _, _)
\* __createTask (lines 879-888) for each frame of the list: a tracked path
\* that is registered gets the registered task, whatever its arguments were
createTask(m, L, mode, depth) ==
    IF L = <<>> THEN m
    ELSE createTask(IF Registered(m, Head(L)) THEN m
                    ELSE Register(NewFrame(m, Head(L), mode, depth), Head(L)),
                    Tail(L), mode, depth)

\* variants of the semaphore operations that do nothing
releaseNever(m, f) == m

acquireFree(m, f) == m

\* a variant of acquire in which a task that was cancelled while it waited
\* goes on without a job slot
acquireUnlessCancelled(m, f) ==
    IF f = "D" \/ m.cancelReq[f] THEN m ELSE [m EXCEPT !.runners = @ - 1]

\* BoundedSemaphore.release()
release(m, f) == IF f = "D" THEN m ELSE [m EXCEPT !.runners = @ + 1]

acquire(m, f) == IF f = "D" THEN m ELSE [m EXCEPT !.runners = @ - 1]

\* The frame f, holding its job slot, starts the frames of L and waits for
\* them: lines 959-970 and 1411-1422 with __yieldJobWhile (line 1505), the
\* dispatcher (lines 899-906) without it.
Spawn(m, f, L, mode, depth, ypc) ==
    LET m1 == IF cfg.jobs > 1 THEN createTask(m, L, mode, depth)
              ELSE NewFrame(m, Head(L), mode, depth)
        kids == IF cfg.jobs > 1 THEN Range(L) ELSE {Head(L)}
        over == {c \in kids : m1.pc[c] \in Done}
        exc == IF \E c \in over : m1.pc[c] = "failed" THEN "cancel"
               ELSE IF over /= {} THEN "cancelled" ELSE "none"
    IN  release([m1 EXCEPT !.pc[f] = ypc, !.waiting[f] = kids \ over,
                           !.todo[f] = IF cfg.jobs > 1 THEN <<>> ELSE Tail(L),
                           !.childExc[f] = exc,
                           !.reusedFailed = @ \cup {<<f, c>> : c \in {k \in over : m1.pc[k] = "failed"}}], f)

\* a variant of Deliver that wakes the waiting frames without the exception
DeliverSilently(m, f, exc) ==
    [m EXCEPT !.waiting = [p \in Frames |-> m.waiting[p] \ {f}]]

\* the result of frame f reaches the frames that wait for it
Deliver(m, f, exc) ==
    [m EXCEPT !.waiting = [p \in Frames |-> m.waiting[p] \ {f}],
              !.childExc = [p \in Frames |->
                  IF f \in m.waiting[p] /\ exc /= "none" /\ m.childExc[p] = "none"
                  THEN exc ELSE m.childExc[p]]]

\* a variant of wrapTask that also removes a failed task from its tracker
wrapTaskForgetful(m, f, res) ==
    IF res = "ok"
    THEN Deliver([(IF IsTask(f) THEN Deregister(m, f) ELSE m) EXCEPT !.pc[f] = "ok"], f, "none")
    ELSE IF res = "cancelled"
    THEN Deliver([m EXCEPT !.pc[f] = "cancelled"], f, IF IsTask(f) THEN "none" ELSE "cancelled")
    ELSE IF ~IsTask(f)
    THEN Deliver([m EXCEPT !.pc[f] = "failed"], f, res)
    ELSE IF res = "cancel"
    THEN Deliver([Deregister(m, f) EXCEPT !.pc[f] = "failed"], f, res)
    ELSE Deliver([Deregister(m, f) EXCEPT !.pc[f] = "failed",
                                          !.running = IF cfg.keepGoing THEN @ ELSE FALSE,
                                          !.buildErrors = Append(@, res)], f, "cancel")

\* Frame f ends with res: "ok", "cancel" (CancelBuildException), "cancelled"
\* (CancelledError), "restart" (RestartBuildException), "exception" (any
\* other exception) or the step whose BuildError it raises.  A task ends in
\* wrapTask (lines 849-877); a nested call hands the exception to its caller.
wrapTask(m, f, res) ==
    IF res = "ok"
    THEN Deliver([(IF IsTask(f) THEN Deregister(m, f) ELSE m) EXCEPT !.pc[f] = "ok"], f, "none")
    ELSE IF res = "cancelled"
    THEN Deliver([m EXCEPT !.pc[f] = "cancelled"], f, IF IsTask(f) THEN "none" ELSE "cancelled")
    ELSE IF res = "cancel" \/ ~IsTask(f)
    THEN Deliver([m EXCEPT !.pc[f] = "failed"], f, res)
    ELSE IF res = "restart"
    THEN Deliver([m EXCEPT !.pc[f] = "failed", !.restart = m.running \/ @,
                           !.running = FALSE], f, "cancel")
    ELSE IF res = "exception"
    THEN Deliver([m EXCEPT !.pc[f] = "failed", !.buildErrors = Append(@, res)], f, "cancel")
    ELSE Deliver([m EXCEPT !.pc[f] = "failed",
                           !.running = IF cfg.keepGoing THEN @ ELSE FALSE,
                           !.buildErrors = Append(@, res)], f, "cancel")

Finish(m, f, res) == wrapTask([m EXCEPT !.live[f] = @ - 1], f, res)

\* a segment of a frame: the new memory, the store operations in order, and
\* what happened to the step
Seg(m, ops, ev) == [m |-> m, ops |-> ops, ev |-> ev]


(***************************************************************************)
(* The step executors, one operator per segment between two awaits.        *)
(***************************************************************************)
\* buildStep.getArguments(), the valid ones
getArguments(s) ==
    CASE s = "a_build" -> <<"a_src">>
      [] s = "a_dist" -> <<"a_build">>
      [] OTHER -> <<>>

\* self.__cleanBuild of develop mode
cleanBuild == FALSE

\* the end of _cookStep after the executor returned (lines 985, 989, 995,
\* 1120): mark the step as run, give the job slot back
StepDone(m, s) ==
    Finish(release(setAlreadyRun(m, s, IF isCheckoutStep(s) THEN FALSE ELSE m.tmode[s]), s),
           s, "ok")

\* a BuildError leaves _cookStep (lines 990-995)
StepError(m, s) == Finish(release(m, s), s, s)

\* a variant of squash that leaves the stored state as it is
squashNothing(s) == <<>>

\* lines 1177-1178 and 1295-1296: squash the state before the script runs
squash(s) == <<Op("delInputHashes", s, PyNone), Op("setResultHash", s, Sentinel)>>

\* _clearWasRun (lines 539-543)
clearWasRun(m) ==
    [m EXCEPT !.wasRun = [s \in Steps |-> IF isCheckoutStep(s) THEN @[s] ELSE PyNone]]

\* a variant of handleChangedBuildId that keeps the derived build-ids and
\* the was-run marks
handleChangedKeeps(m, s, checkoutHash) ==
    [m EXCEPT !.srcBuildIds[s] = <<checkoutHash, FALSE>>]

\* a variant of handleChangedBuildId that leaves the wrong prediction in the
\* cache
handleChangedStillPredicted(m, s, checkoutHash) ==
    clearWasRun([m EXCEPT !.buildDistBuildIds = [x \in Steps |-> PyNone]])

\* __handleChangedBuildId (lines 1447-1469), the builder's part
handleChangedBuildId(m, s, checkoutHash) ==
    clearWasRun([m EXCEPT !.srcBuildIds[s] = <<checkoutHash, FALSE>>,
                          !.buildDistBuildIds = [x \in Steps |-> PyNone]])

\* the end of _cookCheckoutStep (lines 1118-1129): mark the step as run and
\* compare its hash with the build-id that was handed out for it
CheckoutEnd(m, d, s, ops, checkoutHash, ev) ==
    LET m1 == setAlreadyRun(m, s, FALSE)
    IN  IF m.srcBuildIds[s] /= PyNone /\ m.srcBuildIds[s][1] /= checkoutHash
        THEN Seg(Finish(release(handleChangedBuildId(m1, s, checkoutHash), s), s, "restart"),
                 ops \o (IF d.liveBuildId[s] /= PyNone
                         THEN <<Op("delLiveBuildId", s, PyNone)>> ELSE <<>>),
                 ev)
        ELSE Seg(StepDone(m, s), ops, ev)

\* a variant of skipBuildOnly: --build-only does not hold a checkout back
skipNever(d, s) == FALSE

\* line 1021: in build-only mode a checkout that has a result is left alone
skipBuildOnly(d, s) == cfg.buildOnly /\ d.resultHash[s] /= PyNone

\* _cookCheckoutStep from line 1011 to the start of the script (line 1090)
\* or, when the checkout is skipped, to its end
CheckoutBody(m, d, s) ==
    LET created == ~exists(d, s)
        ops0 == IF created
                THEN <<Op("makedirs", s, PyNone),
                       Op("resetWorkspaceState", s, CheckoutState(NoKey, NoKey))>>
                ELSE <<>>
        d0 == ApplyAll(d, ops0)
        old == IF d0.dirState[s] = PyNone THEN CheckoutState(NoKey, NoKey) ELSE d0.dirState[s]
        checkoutState == CheckoutState(getScmDirectories(s), getVariantId(s))
        checkoutInputHashes == resultHashes(d0, getAllDepSteps(s))
        rerun == \/ cfg.force
                 \/ ~isDeterministic(s)
                 \/ d0.resultHash[s] = PyNone
                 \/ checkoutState /= old
                 \/ checkoutInputHashes /= d0.inputHashes[s]
        moved == old[2] /= NoKey /\ old[2] /= checkoutState[2]
        opsA == IF moved
                THEN (IF hasContent(d0, s) THEN <<Op("atticRename", s, PyNone)>> ELSE <<>>)
                     \o <<Op("setDirectoryState", s, CheckoutState(NoKey, old[3]))>>
                ELSE <<>>
        dA == ApplyAll(d0, opsA)
        collides == (moved \/ old[2] = NoKey) /\ hasContent(dA, s)
        opsB == <<Op("setDirectoryState", s, CheckoutState(checkoutState[2], NoKey))>>
                \o (IF dA.resultHash[s] /= PyNone
                    THEN <<Op("setResultHash", s, Sentinel)>> ELSE <<>>)
                \o <<Op("runScript", s, PyNone)>>
        rehash == <<Op("setResultHash", s, hashWorkspace(d0.ws[s]))>>
    IN  IF skipBuildOnly(d0, s)
        THEN CheckoutEnd(m, d0, s, ops0 \o rehash, hashWorkspace(d0.ws[s]), "skip_mode")
        ELSE IF ~rerun
        THEN CheckoutEnd(m, d0, s, ops0 \o rehash, hashWorkspace(d0.ws[s]), "skip_unchanged")
        ELSE IF collides
        THEN Seg(StepError(m, s), ops0 \o opsA, "error")
        ELSE Seg([m EXCEPT !.pc[s] = "script", !.loc[s].ih = checkoutInputHashes],
                 ops0 \o opsA \o opsB, "script")

\* _cookCheckoutStep after the script returned 0 (lines 1091-1120)
CheckoutPost(m, d, s) ==
    CheckoutEnd(m, d, s,
        <<Op("setDirectoryState", s, CheckoutState(getScmDirectories(s), getVariantId(s))),
          Op("setInputHashes", s, m.loc[s].ih),
          Op("setVariantId", s, getIncrementalVariantId(d, s)),
          Op("setResultHash", s, hashWorkspace(d.ws[s]))>>,
        hashWorkspace(d.ws[s]), "exec")

\* _cookBuildStep from line 1144 to the start of the script (line 1180) or,
\* when the build is skipped, to its end
BuildBody(m, d, s) ==
    LET args == getArguments(s)
        buildDigest == PyList(<<getIncrementalVariantId(d, s), getExecPath(s)>>
                              \o [i \in 1..Len(args) |-> getExecPath(args[i])])
        ops1 == constructAndPrune(d, s, buildDigest)
        d1 == ApplyAll(d, ops1)
        buildInputHashes == resultHashes(d1, getAllDepSteps(s))
    IN  IF m.tmode[s]
        THEN Seg(StepDone(m, s), ops1, "skip_mode")
        ELSE IF ~cfg.force /\ d1.inputHashes[s] = buildInputHashes
        THEN Seg(StepDone(m, s),
                 ops1 \o (IF ~cleanBuild
                          THEN <<Op("setResultHash", s, hashWorkspace(d1.ws[s]))>>
                          ELSE <<>>),
                 "skip_unchanged")
        ELSE Seg([m EXCEPT !.pc[s] = "script", !.loc[s].ih = buildInputHashes,
                           !.loc[s].vid = buildDigest[2][1]],
                 ops1 \o squash(s)
                      \o (IF cleanBuild THEN <<Op("emptyDirectory", s, PyNone)>> ELSE <<>>)
                      \o <<Op("runScript", s, PyNone)>>,
                 "script")

\* _cookPackageStep from line 1282 to the start of the script (line 1297)
\* or, when packaging is skipped, to its end
PackageBody(m, d, s, opsSoFar) ==
    LET packageInputs == getCheckoutStep(s) \o getAllDepSteps(s)
        packageInputHashes == resultHashes(d, packageInputs)
    IN  IF m.tmode[s]
        THEN Seg(StepDone(m, s), opsSoFar, "skip_mode")
        ELSE IF ~cfg.force /\ m.loc[s].oldIH = packageInputHashes
        THEN Seg(StepDone(m, s), opsSoFar, "skip_unchanged")
        ELSE Seg([m EXCEPT !.pc[s] = "script", !.loc[s].ih = packageInputHashes],
                 opsSoFar \o squash(s)
                          \o <<Op("emptyDirectory", s, PyNone), Op("runScript", s, PyNone)>>,
                 "script")

\* _cookPackageStep lines 1274-1277: cook the dependencies, then package
PackageDeps(m, d, s, opsSoFar) ==
    LET L == cookFilter(m, getAllDepSteps(s), getPackage(s), m.tmode[s])
    IN  IF L = <<>> THEN PackageBody(m, d, s, opsSoFar)
        ELSE Seg(Spawn(m, s, L, m.tmode[s], m.tdepth[s] + 1, "deps"), opsSoFar, "none")

\* _cookPackageStep lines 1213-1268, with the build-id bidv of the step
PackageDecide(m, d, s, bidv, opsSoFar) ==
    LET old == d.inputHashes[s]
        oldIsList == isList(old) /\ Len(old[2]) >= 1
        oldWasDownloaded == isBytes(old)
        oldInputBuildId == IF oldIsList THEN old[2][1]
                           ELSE IF oldWasDownloaded THEN old[2] ELSE old
        oldInputHashes == IF oldIsList THEN PyList(Tail(old[2]))
                          ELSE IF oldWasDownloaded THEN PyNone ELSE old
        tryDownload == ~m.tmode[s] /\ bidv /= PyNone /\ m.tdepth[s] >= cfg.downloadDepth
        prune == tryDownload /\ ( \/ (oldInputBuildId /= PyNone /\ oldInputBuildId /= bidv)
                                  \/ cfg.force )
        ops2 == IF prune
                THEN <<Op("emptyDirectory", s, PyNone),
                       Op("resetWorkspaceState", s, getVariantId(s))>>
                ELSE <<>>
        d2 == ApplyAll(d, ops2)
        m2 == [m EXCEPT !.loc[s].bid = bidv,
                        !.loc[s].oldIH = IF prune THEN PyNone ELSE oldInputHashes]
    IN  IF tryDownload /\ d2.resultHash[s] = PyNone
        THEN Seg([m2 EXCEPT !.pc[s] = "download", !.loc[s].dl = "try"], opsSoFar \o ops2, "none")
        ELSE IF tryDownload /\ oldWasDownloaded
        THEN Seg(StepDone(m2, s), opsSoFar \o ops2, "dlskip")
        ELSE PackageDeps(m2, d2, s, opsSoFar \o ops2)

\* _cookPackageStep lines 1189-1207
PackageStart(m, d, s) ==
    LET ops1 == constructAndPrune(d, s, getVariantId(s))
    IN  IF isRelocatable(s) \/ getSandbox(s) /= PyNone
        THEN Seg(Spawn(m, s, <<BidFrame(s)>>, FALSE, m.tdepth[s], "getbid"), ops1, "none")
        ELSE PackageDecide(m, ApplyAll(d, ops1), s, PyNone, ops1)

\* lines 1181-1182 and 1298-1302 after the script returned 0: hash the
\* result, then _generateAudit asks for the build-id (line 557)
ScriptPost(m, d, s) ==
    Seg(Spawn([m EXCEPT !.loc[s].hash = hashWorkspace(d.ws[s]),
                        !.loc[s].vid = IF isPackageStep(s) THEN getIncrementalVariantId(d, s)
                                       ELSE @],
              s, <<BidFrame(s)>>, FALSE, m.tdepth[s], "audit"),
        <<>>, "none")

\* a variant of AuditDone that does not store the result
AuditDoneForgets(m, s) == Seg(StepDone(m, s), <<>>, "exec")

\* lines 1183-1185 and 1307-1313 after the audit trail was written
AuditDone(m, s) ==
    Seg(StepDone(m, s),
        <<Op("setResultHash", s, m.loc[s].hash),
          Op("setVariantId", s, m.loc[s].vid),
          Op("setInputHashes", s,
             IF isPackageStep(s) THEN PyList(<<m.loc[s].bid>> \o m.loc[s].ih[2])
             ELSE m.loc[s].ih)>>,
        "exec")

\* a variant of downloadForced: a failed download is never fatal
downloadOptional(m, s) == FALSE

\* line 1263: at this depth the artifact must come from the archive
downloadForced(m, s) == m.tdepth[s] >= cfg.downloadDepthForce

\* lines 1257-1264 and 1307-1311 after downloadPackage returned
DownloadPost(m0, d, s, wasDownloaded) ==
    LET m == [m0 EXCEPT !.loc[s].dl = IF wasDownloaded THEN "hit" ELSE "miss"]
    IN
    IF wasDownloaded
    THEN Seg(StepDone(m, s),
             <<Op("setInputHashes", s, PyBytes(m.loc[s].bid)),
               Op("setResultHash", s, hashWorkspace(d.ws[s])),
               Op("setVariantId", s, getVariantId(s)),
               Op("setInputHashes", s, PyBytes(m.loc[s].bid))>>,
             "download")
    ELSE IF downloadForced(m, s)
    THEN Seg(StepError(m, s), <<>>, "error")
    ELSE PackageDeps(m, d, s, <<>>)


(***************************************************************************)
(* Build-ids of checkout steps: prediction from live build-ids.            *)
(***************************************************************************)
\* step.predictLiveBuildId(): the SCM names its head, or cannot
predictLiveBuildId(c) == IF cfg.live = "some" THEN <<"live", c>> ELSE PyNone

\* archive.downloadLocalLiveBuildId: the build-id that was uploaded for the
\* live build-id, which is the hash of what a checkout yields now or of
\* what it yielded earlier, or nothing
downloadLocalLiveBuildId(c) ==
    CASE cfg.translation = "right" -> hashWorkspace(Out(c, getScmDirectories(c)))
      [] cfg.translation = "wrong" -> hashWorkspace(Out(c, <<"stale">>))
      [] OTHER -> PyNone

\* a variant of predictBuildId that asks the archive whatever the
\* workspace, the patterns and the SCM are
predictAlways(d, c) == [ret |-> downloadLocalLiveBuildId(c), ops |-> <<>>]

\* __getCheckoutStepBuildId lines 1366-1376 with __queryLiveBuildId (lines
\* 1315-1332) and __translateLiveBuildId (lines 1342-1357): the predicted
\* build-id of checkout step c, or None, and what is written to the store.
\* The translations are kept per step, every step having one live build-id.
predictBuildId(d, c) ==
    LET cached == IF cfg.buildOnly THEN d.liveBuildId[c] ELSE PyNone
        liveBId == IF cached /= PyNone THEN cached ELSE predictLiveBuildId(c)
        ops1 == IF cached = PyNone /\ liveBId /= PyNone
                THEN <<Op("setLiveBuildId", c, liveBId)>> ELSE <<>>
        bid == IF liveBId = PyNone THEN PyNone
               ELSE IF d.translated[c] /= PyNone THEN d.translated[c]
               ELSE downloadLocalLiveBuildId(c)
        ops2 == IF liveBId /= PyNone /\ d.translated[c] = PyNone /\ bid /= PyNone
                THEN <<Op("setTranslation", c, bid)>> ELSE <<>>
    IN  IF /\ ~exists(d, c) /\ ~cfg.alwaysCheckout
           /\ cfg.live /= "unsupported" /\ cfg.canDownloadLocal
        THEN [ret |-> bid, ops |-> ops1 \o ops2]
        ELSE [ret |-> PyNone, ops |-> <<>>]

\* __getBuildIdSingle (lines 1430-1445) when the build-id of s is complete:
\* the hashes of the checkouts that were cooked for it and the build-ids
\* derived from them enter the caches
BuildIdDone(m, d, s) ==
    LET src == [c \in Steps |->
                   IF c \in Range(checkoutClosure(s)) /\ m.srcBuildIds[c] = PyNone
                   THEN <<d.resultHash[c], FALSE>> ELSE m.srcBuildIds[c]]
        RECURSIVE dist(_)
        dist(x) == IF isCheckoutStep(x) THEN {}
                   ELSE {x} \cup UNION {dist(y) : y \in Range(getAllDepSteps(x))}
    IN  [m EXCEPT !.srcBuildIds = src,
                  !.buildDistBuildIds = [x \in Steps |->
                      IF x \in dist(s) THEN buildIdOf(src, d, x) ELSE @[x]]]

\* __getBuildIdTask (lines 1424-1428) of frame f up to its first await:
\* a cached build-id is returned, a checkout step whose build-id can be
\* predicted is not cooked, the other checkout steps are cooked
BuildIdStart(m, d, f) ==
    LET s == StepOf(f)
        need == SelectSeq(checkoutClosure(s), LAMBDA c : m.srcBuildIds[c] = PyNone)
        guess == [c \in Range(need) |-> predictBuildId(d, c)]
        RECURSIVE ops(_)
        ops(q) == IF q = <<>> THEN <<>> ELSE guess[Head(q)].ops \o ops(Tail(q))
        m1 == [m EXCEPT !.srcBuildIds = [c \in Steps |->
                  IF c \in Range(need) /\ guess[c].ret /= PyNone
                  THEN <<guess[c].ret, TRUE>> ELSE @[c]]]
        L == SelectSeq(need, LAMBDA c : guess[c].ret = PyNone /\ ~wasAlreadyRun(m, c, TRUE))
    IN  IF m.buildDistBuildIds[s] /= PyNone
        THEN Seg(Finish(release(m, f), f, "ok"), <<>>, "none")
        ELSE IF L = <<>>
        THEN Seg(Finish(release(BuildIdDone(m1, d, s), f), f, "ok"), ops(need), "none")
        ELSE Seg(Spawn(m1, f, L, TRUE, 0, "deps"), ops(need), "none")


(***************************************************************************)
(* History of the run.                                                     *)
(*   run         number of the invocation                                  *)
(*   nScript     how often the script of a step was started in this run    *)
(*   cooked      how the cook of a step ended in this run                  *)
(*   sigint      SIGINT was received in this run                           *)
(*   interrupted steps whose script failed or was left running by SIGINT   *)
(*               and did not succeed since                                 *)
(*   outcome     how cook() returned                                       *)
(*   ref         what the reference run did (SpecPair, SpecLivePair)       *)
(*   prev        how this invocation relates to the successful one before  *)
(*               it (SpecRuns)                                             *)
(*   pass        number of the pass of cook() in this run                  *)
(*   mode        the argument of the last setDownloadMode call, nModes the  *)
(*               number of calls in this process (SpecDl)                  *)
(*   raised      the exception that cook() raised                          *)
(*   ranInPass   the steps whose script was started in this pass           *)
(***************************************************************************)
\* an empty project directory
InitDisk ==
    [dirState |-> [s \in Steps |-> PyNone], inputHashes |-> [s \in Steps |-> PyNone],
     resultHash |-> [s \in Steps |-> PyNone], variantId |-> [s \in Steps |-> PyNone],
     ws |-> [s \in Steps |-> Absent], attic |-> {},
     liveBuildId |-> [s \in Steps |-> PyNone], translated |-> [s \in Steps |-> PyNone],
     buildState |-> PyNone]

\* what is known of the run before this one (SpecRuns)
NoPrev == [after |-> FALSE, same |-> FALSE, normal |-> FALSE, onlyMode |-> FALSE]

InitHist ==
    [run |-> 1, nScript |-> [s \in Steps |-> 0], cooked |-> [s \in Steps |-> "no"],
     sigint |-> FALSE, interrupted |-> {}, outcome |-> "none", crashed |-> FALSE,
     prev |-> NoPrev, mode |-> "none", nModes |-> 0, pass |-> 1, raised |-> PyNone,
     ranInPass |-> {},
     ref |-> [valid |-> FALSE, scripts |-> {}, downloads |-> {}, disk |-> InitDisk,
              passes |-> 1]]

Good == {"exec", "skip_unchanged", "download", "dlskip"}

Note(h, s, ev) ==
    CASE ev = "script" -> [h EXCEPT !.nScript[s] = IF @ < 2 THEN @ + 1 ELSE @,
                                    !.ranInPass = @ \cup {s}]
      [] ev = "scriptfail" -> [h EXCEPT !.interrupted = @ \cup {s}]
      [] ev \in {"exec", "download"} ->
             [h EXCEPT !.cooked[s] = ev, !.interrupted = @ \ {s}]
      [] ev \in {"skip_unchanged", "skip_mode", "dlskip"} -> [h EXCEPT !.cooked[s] = ev]
      [] OTHER -> h

\* a segment takes effect: at once, or operation by operation
Commit(d, seg, s) ==
    \E r \in {seg} :
        /\ mem' = r.m
        /\ IF cfg.opLevel
           THEN disk' = d /\ pending' = r.ops
           ELSE disk' = ApplyAll(d, r.ops) /\ pending' = <<>>
        /\ hist' = Note(hist, s, r.ev)
        /\ UNCHANGED cfg

Active == mem.phase = "run" /\ pending = <<>>

(***************************************************************************)
(* Actions.                                                                *)
(***************************************************************************)
\* cook(), lines 909-918: a pass begins, the dispatcher task is created
Cook ==
    /\ mem.phase = "idle"
    /\ pending = <<>>
    /\ mem' = NewFrame([mem EXCEPT !.phase = "run", !.running = TRUE, !.restart = FALSE,
                                   !.cookTasks = {}, !.buildIdTasks = {},
                                   !.buildErrors = <<>>, !.runners = cfg.jobs],
                       "D", cfg.checkoutOnly, 0)
    /\ UNCHANGED <<cfg, disk, pending, hist>>

rootFrames == [i \in 1..Len(cfg.roots) |-> RootFrame(cfg.roots[i])]

\* the first segment of a frame: dispatcher (lines 898-906), _cookTask
\* (lines 944-947), __getBuildIdTask (lines 1424-1428), _cookStep (lines
\* 972-989) with the beginning of its executor
StartSeg(m, d, f) ==
    IF f = "D"
    THEN Seg(Spawn(m, f, rootFrames, cfg.checkoutOnly, 0, "deps"), <<>>, "none")
    ELSE IF ~m.running
    THEN Seg(Finish(release(m, f), f, "cancel"), <<>>, "none")
    ELSE IF f \in RootFrames
    THEN LET L == cookFilter(m, <<StepOf(f)>>, getPackage(StepOf(f)), m.tmode[f])
         IN  IF L = <<>> THEN Seg(Finish(release(m, f), f, "ok"), <<>>, "none")
             ELSE Seg(Spawn(m, f, L, m.tmode[f], m.tdepth[f], "deps"), <<>>, "none")
    ELSE IF f \in BidFrames
    THEN BuildIdStart(m, d, f)
    ELSE IF wasAlreadyRun(m, f, m.tmode[f])
    THEN Seg(Finish(release(m, f), f, "ok"), <<>>, "none")
    ELSE IF isPackageStep(f)
    THEN PackageStart(m, d, f)
    ELSE LET mode == IF isCheckoutStep(f) THEN FALSE ELSE m.tmode[f]
             L == cookFilter(m, getAllDepSteps(f), getPackage(f), mode)
         IN  IF L /= <<>> THEN Seg(Spawn(m, f, L, mode, m.tdepth[f] + 1, "deps"), <<>>, "none")
             ELSE IF isCheckoutStep(f) THEN CheckoutBody(m, d, f)
             ELSE BuildBody(m, d, f)

Start(f) ==
    /\ Active
    /\ mem.pc[f] = "new"
    /\ f = "D" \/ mem.runners > 0
    /\ Commit(disk, StartSeg(acquire(mem, f), disk, f), StepOf(f))

\* the arguments with which frame f cooks its dependencies
childMode(m, f) ==
    IF f \in BidFrames THEN TRUE
    ELSE IF f \in Steps /\ isCheckoutStep(f) THEN FALSE ELSE m.tmode[f]

childDepth(m, f) ==
    IF f \in BidFrames THEN 0
    ELSE IF f \in Steps THEN m.tdepth[f] + 1 ELSE m.tdepth[f]

\* a frame goes on after the frames it waited for ended: __yieldJobWhile
\* from line 1508 on, then the code after the await
ResumeSeg(m, d, f) ==
    IF m.cancelReq[f]
    THEN Seg(Finish(release(m, f), f, "cancelled"), <<>>, "none")
    ELSE IF m.childExc[f] /= "none"
    THEN Seg(Finish(release(m, f), f, m.childExc[f]), <<>>, "none")
    ELSE IF f /= "D" /\ ~m.running
    THEN Seg(Finish(release(m, f), f, "cancel"), <<>>, "none")
    ELSE IF m.todo[f] /= <<>>
    THEN Seg(Spawn(m, f, m.todo[f], childMode(m, f), childDepth(m, f), m.pc[f]), <<>>, "none")
    ELSE IF f \in BidFrames
    THEN Seg(Finish(release(BuildIdDone(m, d, StepOf(f)), f), f, "ok"), <<>>, "none")
    ELSE IF f \notin Steps
    THEN Seg(Finish(release(m, f), f, "ok"), <<>>, "none")
    ELSE IF m.pc[f] = "getbid"
    THEN PackageDecide(m, d, f, buildIdOf(m.srcBuildIds, d, f), <<>>)
    ELSE IF m.pc[f] = "audit"
    THEN AuditDone(m, f)
    ELSE IF isCheckoutStep(f) THEN CheckoutBody(m, d, f)
    ELSE IF isBuildStep(f) THEN BuildBody(m, d, f)
    ELSE PackageBody(m, d, f, <<>>)

Resume(f) ==
    /\ Active
    /\ mem.pc[f] \in Yielded
    /\ mem.waiting[f] = {} \/ mem.cancelReq[f]
    /\ f = "D" \/ mem.runners > 0
    /\ Commit(disk, ResumeSeg(acquire(mem, f), disk, f), StepOf(f))

\* the script of step s ends (_runShell, lines 801-815): with 0 it wrote its
\* result, otherwise a BuildError is raised and the workspace stays as it is
ScriptExit(s, ok) ==
    /\ Active
    /\ mem.pc[s] = "script"
    /\ IF ok
       THEN LET content == Out(s, IF isCheckoutStep(s) THEN getScmDirectories(s)
                                  ELSE mem.loc[s].ih)
                d == [disk EXCEPT !.ws[s] = content]
            IN  Commit(d, IF isCheckoutStep(s) THEN CheckoutPost(mem, d, s)
                          ELSE ScriptPost(mem, d, s), s)
       ELSE Commit(disk, Seg(StepError(mem, s), <<>>, "scriptfail"), s)

\* archive.downloadPackage returns (line 1255)
DownloadExit(s, wasDownloaded) ==
    /\ Active
    /\ mem.pc[s] = "download"
    /\ LET d == IF wasDownloaded THEN [disk EXCEPT !.ws[s] = Downloaded(s, mem.loc[s].bid)]
                ELSE disk
       IN  Commit(d, DownloadPost(mem, d, s, wasDownloaded), s)


\* a variant of cancelJobs that leaves a requested restart standing
cancelJobsKeepsRestart(m) ==
    LET aborted == {f \in Steps : m.pc[f] = "download"}
        dropped == {f \in Frames : IsTask(f) /\ m.pc[f] = "new"}
                   \cup (IF cfg.jobs > 1 THEN {"D"} ELSE {})
        gone == aborted \cup dropped
    IN  [m EXCEPT !.running = FALSE,
                  !.pc = [f \in Frames |-> IF f \in gone THEN "cancelled" ELSE m.pc[f]],
                  !.runners = @ + Cardinality(aborted),
                  !.live = [f \in Frames |-> IF f \in gone THEN m.live[f] - 1 ELSE m.live[f]],
                  !.waiting = [f \in Frames |-> m.waiting[f] \ gone],
                  !.childExc = [f \in Frames |->
                      IF ~IsTask(f) /\ m.waiting[f] \cap aborted /= {} THEN "cancelled"
                      ELSE m.childExc[f]],
                  !.cancelReq = [f \in Frames |->
                      IF IsTask(f) /\ f /= "D" /\ m.pc[f] \in Yielded THEN TRUE
                      ELSE m.cancelReq[f]]]

\* cancelJobs (lines 891-896): SIGINT while the loop runs.  Every task is
\* cancelled: a task that has not started or waits for its job slot ends, a
\* task inside __yieldJobWhile gets the CancelledError once it has its slot
\* back, a task that waits for its script swallows it (lines 820-824), a
\* download is abandoned.  With jobs = 1 the loop only gets control while a
\* script or a download runs.
cancelJobs(m) ==
    LET aborted == {f \in Steps : m.pc[f] = "download"}
        dropped == {f \in Frames : IsTask(f) /\ m.pc[f] = "new"}
                   \cup (IF cfg.jobs > 1 THEN {"D"} ELSE {})
        gone == aborted \cup dropped
    IN  [m EXCEPT !.running = FALSE, !.restart = FALSE,
                  !.pc = [f \in Frames |-> IF f \in gone THEN "cancelled" ELSE m.pc[f]],
                  !.runners = @ + Cardinality(aborted),
                  !.live = [f \in Frames |-> IF f \in gone THEN m.live[f] - 1 ELSE m.live[f]],
                  !.waiting = [f \in Frames |-> m.waiting[f] \ gone],
                  !.childExc = [f \in Frames |->
                      IF ~IsTask(f) /\ m.waiting[f] \cap aborted /= {} THEN "cancelled"
                      ELSE m.childExc[f]],
                  !.cancelReq = [f \in Frames |->
                      IF IsTask(f) /\ f /= "D" /\ m.pc[f] \in Yielded THEN TRUE
                      ELSE m.cancelReq[f]]]

Sigint ==
    /\ Active
    /\ ~hist.sigint
    /\ mem.pc["D"] = "deps"
    /\ cfg.jobs = 1 => \E s \in Steps : mem.pc[s] \in {"script", "download"}
    /\ mem' = cancelJobs(mem)
    /\ disk' = [disk EXCEPT !.ws = [s \in Steps |->
                   IF mem.pc[s] = "download" THEN Partial(s) ELSE disk.ws[s]]]
    /\ hist' = [hist EXCEPT !.sigint = TRUE]
    /\ UNCHANGED <<cfg, pending>>

\* a variant of newPass that keeps the trackers, the errors and the
\* semaphore of the pass before
newPassStale(m) ==
    [m EXCEPT !.running = TRUE, !.restart = FALSE,
              !.pc = [f \in Frames |-> "none"],
              !.live = [f \in Frames |-> 0],
              !.loc = [s \in Steps |-> NoLocals]]

\* cook(), lines 910-915, when the loop goes round again: the coroutines of
\* the pass before are gone, the caches of the builder stay
newPass(m) ==
    [InitMem EXCEPT !.phase = "run", !.running = TRUE, !.restart = FALSE,
                    !.cookTasks = {}, !.buildIdTasks = {}, !.buildErrors = <<>>,
                    !.runners = cfg.jobs,
                    !.wasRun = m.wasRun, !.wasSkipped = m.wasSkipped,
                    !.srcBuildIds = m.srcBuildIds,
                    !.buildDistBuildIds = m.buildDistBuildIds]

\* a variant of raiseErrors that wraps the errors in any case
raiseErrorsMulti(m) ==
    IF m.buildErrors /= <<>> THEN <<"MultiBobError", m.buildErrors>>
    ELSE IF ~m.running THEN <<"BuildError", "Canceled by user!">>
    ELSE PyNone

\* cook(), lines 935-942: the exception that cook() ends with: a
\* MultiBobError, the one error of the list, or "Canceled by user!"
raiseErrors(m) ==
    IF Len(m.buildErrors) > 1 THEN <<"MultiBobError", m.buildErrors>>
    ELSE IF m.buildErrors /= <<>> THEN <<"raise", m.buildErrors[1]>>
    ELSE IF ~m.running THEN <<"BuildError", "Canceled by user!">>
    ELSE PyNone

\* a variant of PassEnd that looks at the restart flag before the errors
PassEndRestartFirst ==
    /\ Active
    /\ mem.pc["D"] \in Done
    /\ IF mem.restart
       THEN /\ mem' = NewFrame(newPass(mem), "D", cfg.checkoutOnly, 0)
            /\ hist' = [hist EXCEPT !.pass = @ + 1, !.ranInPass = {}]
       ELSE /\ mem' = [mem EXCEPT !.phase = "end"]
            /\ hist' = [hist EXCEPT
                  !.outcome = IF mem.buildErrors /= <<>> THEN "error"
                              ELSE IF ~mem.running THEN "canceled" ELSE "ok",
                  !.raised = raiseErrors(mem),
                  !.interrupted = @ \cup {s \in Steps : mem.pc[s] = "script"}]
    /\ UNCHANGED <<cfg, disk, pending>>

\* cook(), lines 923-942: the dispatcher task is done; cook() raises the
\* build errors of the pass, or starts a new pass if a restart was asked
\* for, or returns, or raises "Canceled by user!"
PassEnd ==
    /\ Active
    /\ mem.pc["D"] \in Done
    /\ IF mem.buildErrors = <<>> /\ mem.restart
       THEN /\ mem' = NewFrame(newPass(mem), "D", cfg.checkoutOnly, 0)
            /\ hist' = [hist EXCEPT !.pass = @ + 1, !.ranInPass = {}]
       ELSE /\ mem' = [mem EXCEPT !.phase = "end"]
            /\ hist' = [hist EXCEPT
                  !.outcome = IF mem.buildErrors /= <<>> THEN "error"
                              ELSE IF ~mem.running THEN "canceled" ELSE "ok",
                  !.raised = raiseErrors(mem),
                  !.interrupted = @ \cup {s \in Steps : mem.pc[s] = "script"}]
    /\ UNCHANGED <<cfg, disk, pending>>

\* the next store or filesystem operation of the running segment
StoreOp ==
    /\ pending /= <<>>
    /\ disk' = ApplyOp(disk, Head(pending))
    /\ pending' = Tail(pending)
    /\ UNCHANGED <<cfg, mem, hist>>

\* the process dies (power loss, SIGKILL) between two operations
Crash ==
    /\ mem.phase = "run"
    /\ mem' = [mem EXCEPT !.phase = "end"]
    /\ pending' = <<>>
    /\ hist' = [hist EXCEPT !.crashed = TRUE, !.outcome = "crash"]
    /\ UNCHANGED <<cfg, disk>>

(***************************************************************************)
(* Invocations.                                                            *)
(***************************************************************************)
AllRoots == <<"a_dist", "l_dist">>

Cfg(jobs, keepGoing, skipDeps, checkoutOnly, buildOnly, force, depth, relocatable, recipe, roots, opLevel) ==
    [jobs |-> jobs, keepGoing |-> keepGoing, skipDeps |-> skipDeps,
     checkoutOnly |-> checkoutOnly, buildOnly |-> buildOnly, force |-> force,
     downloadDepth |-> depth, downloadDepthForce |-> NoDownload,
     relocatable |-> relocatable, recipe |-> recipe, roots |-> roots,
     opLevel |-> opLevel, nondet |-> {}, sandbox |-> {},
     wantDownload |-> depth /= NoDownload, canDownloadLocal |-> TRUE,
     alwaysCheckout |-> FALSE, live |-> "unsupported", translation |-> "none"]

\* the invocations of the scheduler view
SchedCfgs ==
    {Cfg(j, k, n, c, FALSE, FALSE, dl[1], dl[2], 1, AllRoots, FALSE) :
        j \in 1..MaxJobs, k \in BOOLEAN, n \in BOOLEAN, c \in BOOLEAN,
        dl \in {<<NoDownload, {}>>, <<0, {"a_dist"}>>}}

\* the invocations of the crash view: one job, root a_dist, and one of the
\* modes normal (with or without --force and downloads), build-only and
\* checkout-only, on any version of the recipes
StoreCfgs ==
    {Cfg(1, FALSE, FALSE, FALSE, FALSE, f, dl, {"a_dist"}, r, <<"a_dist">>, TRUE) :
        f \in BOOLEAN, dl \in {0, NoDownload}, r \in 1..NumRecipes}
    \cup {Cfg(1, FALSE, FALSE, c, ~c, FALSE, NoDownload, {"a_dist"}, r, <<"a_dist">>, TRUE) :
        c \in BOOLEAN, r \in 1..NumRecipes}

\* the user runs bob again in the same project directory
NewProcess(c) ==
    /\ mem.phase = "end"
    /\ hist.run < MaxRuns
    /\ cfg' = c
    /\ mem' = InitMem
    /\ hist' = [InitHist EXCEPT !.run = hist.run + 1, !.interrupted = hist.interrupted,
                                !.ref = hist.ref]
    /\ UNCHANGED <<disk, pending>>

\* the same invocation again after a build that succeeded
Rebuild ==
    /\ hist.outcome = "ok"
    /\ hist.run < MaxBuilds
    /\ NewProcess(cfg)

Init ==
    /\ cfg \in SchedCfgs
    /\ mem = InitMem
    /\ disk = InitDisk
    /\ pending = <<>>
    /\ hist = InitHist

Next ==
    \/ Cook
    \/ \E f \in Frames : Start(f)
    \/ \E f \in Frames : Resume(f)
    \/ \E s \in Steps, ok \in BOOLEAN : ScriptExit(s, ok)
    \/ \E s \in Steps, hit \in BOOLEAN : DownloadExit(s, hit)
    \/ Sigint
    \/ PassEnd
    \/ Rebuild

Spec == Init /\ [][Next]_vars

InitStore ==
    /\ cfg \in StoreCfgs
    /\ mem = InitMem
    /\ disk = InitDisk
    /\ pending = <<>>
    /\ hist = InitHist

NextStore ==
    \/ Cook
    \/ \E f \in Frames : Start(f)
    \/ \E f \in Frames : Resume(f)
    \/ \E s \in Steps, ok \in BOOLEAN : ScriptExit(s, ok)
    \/ \E s \in Steps, hit \in BOOLEAN : DownloadExit(s, hit)
    \/ Sigint
    \/ PassEnd
    \/ StoreOp
    \/ Crash
    \/ \E c \in StoreCfgs : NewProcess(c)

SpecStore == InitStore /\ [][NextStore]_vars

(***************************************************************************)
(* The fair scheduler view: the event loop runs every task that can run,   *)
(* and every script and download ends.                                     *)
(***************************************************************************)
Step ==
    \/ Cook
    \/ \E f \in Frames : Start(f)
    \/ \E f \in Frames : Resume(f)
    \/ \E s \in Steps, ok \in BOOLEAN : ScriptExit(s, ok)
    \/ \E s \in Steps, hit \in BOOLEAN : DownloadExit(s, hit)
    \/ PassEnd

NextFair ==
    \/ Step
    \/ Sigint

SpecFair == Init /\ [][NextFair]_vars /\ WF_vars(Step)

(***************************************************************************)
(* The paired view: a run with one job, then the same invocation from the  *)
(* same initial project directory with more jobs.  Scripts succeed, the    *)
(* archive holds every artifact, nobody interrupts.                        *)
(***************************************************************************)
scriptsRun == {s \in Steps : hist.nScript[s] > 0}

downloadsDone == {s \in Steps : hist.cooked[s] = "download"}

Replay(j) ==
    /\ mem.phase = "end"
    /\ cfg.jobs = 1
    /\ ~hist.ref.valid
    /\ cfg' = [cfg EXCEPT !.jobs = j]
    /\ mem' = InitMem
    /\ disk' = InitDisk
    /\ hist' = [InitHist EXCEPT !.ref = [valid |-> TRUE, scripts |-> scriptsRun,
                                         downloads |-> downloadsDone, disk |-> disk,
                                         passes |-> hist.pass]]
    /\ UNCHANGED pending

InitPair ==
    /\ cfg \in {c \in SchedCfgs : c.jobs = 1}
    /\ mem = InitMem
    /\ disk = InitDisk
    /\ pending = <<>>
    /\ hist = InitHist

NextPair ==
    \/ Cook
    \/ \E f \in Frames : Start(f)
    \/ \E f \in Frames : Resume(f)
    \/ \E s \in Steps : ScriptExit(s, TRUE)
    \/ \E s \in Steps : DownloadExit(s, TRUE)
    \/ PassEnd
    \/ \E j \in 2..MaxJobs : Replay(j)

SpecPair == InitPair /\ [][NextPair]_vars

(***************************************************************************)
(* The repeated view: runs with one job that follow one another in the     *)
(* same project directory, each after the one before succeeded, with the   *)
(* same options, in build-only mode, or on another version of the recipes. *)
(***************************************************************************)
RunCfgs ==
    {[Cfg(1, FALSE, FALSE, c, FALSE, f, dl, {"a_dist"}, 1, AllRoots, FALSE)
         EXCEPT !.nondet = nd] :
        c \in BOOLEAN, f \in BOOLEAN, dl \in {0, NoDownload}, nd \in {{}, {"a_src"}}}

\* the invocations that may follow invocation c
FollowCfgs(c) ==
    {[c EXCEPT !.buildOnly = b, !.checkoutOnly = IF b THEN FALSE ELSE @, !.recipe = r] :
        b \in {c.buildOnly, TRUE}, r \in 1..NumRecipes}

Again(c) ==
    /\ mem.phase = "end"
    /\ hist.outcome = "ok"
    /\ hist.run < MaxRuns
    /\ cfg' = c
    /\ mem' = InitMem
    /\ hist' = [InitHist EXCEPT
                  !.run = hist.run + 1,
                  !.prev = [after |-> TRUE, same |-> c = cfg,
                            normal |-> ~cfg.buildOnly /\ ~cfg.checkoutOnly,
                            onlyMode |-> c = [cfg EXCEPT !.buildOnly = TRUE]]]
    /\ UNCHANGED <<disk, pending>>

InitRuns ==
    /\ cfg \in RunCfgs
    /\ mem = InitMem
    /\ disk = InitDisk
    /\ pending = <<>>
    /\ hist = InitHist

NextRuns ==
    \/ Cook
    \/ \E f \in Frames : Start(f)
    \/ \E f \in Frames : Resume(f)
    \/ \E s \in Steps, ok \in BOOLEAN : ScriptExit(s, ok)
    \/ \E s \in Steps, hit \in BOOLEAN : DownloadExit(s, hit)
    \/ PassEnd
    \/ \E c \in FollowCfgs(cfg) : Again(c)

SpecRuns == InitRuns /\ [][NextRuns]_vars

(***************************************************************************)
(* The download view: a builder whose download mode is set once or twice   *)
(* before cook() is called, for packages that are relocatable, built in a  *)
(* sandbox or neither, followed by a further process in the same project   *)
(* directory.                                                              *)
(***************************************************************************)
DownloadModes == {"no", "yes", "forced", "deps", "forced-deps", "forced-fallback"}

\* setDownloadMode (lines 452-474) on the options c
setDownloadMode(c, mode) ==
    LET c0 == [c EXCEPT !.downloadDepth = NoDownload]
        want == [c0 EXCEPT !.wantDownload = TRUE]
    IN  IF mode \in {"yes", "forced"}
        THEN IF mode = "forced"
             THEN [want EXCEPT !.downloadDepth = 0, !.downloadDepthForce = 0]
             ELSE IF c.canDownloadLocal THEN [want EXCEPT !.downloadDepth = 0] ELSE want
        ELSE IF mode \in {"deps", "forced-deps"}
        THEN IF mode = "forced-deps"
             THEN [want EXCEPT !.downloadDepth = 1, !.downloadDepthForce = 1]
             ELSE IF c.canDownloadLocal THEN [want EXCEPT !.downloadDepth = 1] ELSE want
        ELSE IF mode = "forced-fallback"
        THEN [want EXCEPT !.downloadDepth = 0, !.downloadDepthForce = 1]
        ELSE [c0 EXCEPT !.wantDownload = FALSE]

\* the builder as __init__ leaves it (lines 434-435), before any setter
DlCfgs ==
    {[Cfg(1, FALSE, FALSE, co, FALSE, f, NoDownload, rel, 1, <<"a_dist">>, FALSE)
         EXCEPT !.sandbox = sb, !.canDownloadLocal = can] :
        co \in BOOLEAN, f \in BOOLEAN, rel \in {{}, {"a_dist"}, {"a_dist", "t_dist"}},
        sb \in {{}, {"a_dist"}}, can \in BOOLEAN}

SetDownloadMode(mode) ==
    /\ mem.phase = "idle"
    /\ hist.nModes < MaxModeCalls
    /\ cfg' = setDownloadMode(cfg, mode)
    /\ hist' = [hist EXCEPT !.mode = mode, !.nModes = @ + 1]
    /\ UNCHANGED <<mem, disk, pending>>

\* a new process with a new builder in the same project directory, the
\* archive being what it was; the recipes may have changed what is
\* relocatable and what is built in a sandbox
Redo(c) ==
    /\ hist.run < MaxDlRuns
    /\ c.canDownloadLocal = cfg.canDownloadLocal
    /\ c.checkoutOnly = cfg.checkoutOnly
    /\ NewProcess(c)

InitDl ==
    /\ cfg \in DlCfgs
    /\ mem = InitMem
    /\ disk = InitDisk
    /\ pending = <<>>
    /\ hist = InitHist

NextDl ==
    \/ \E mode \in DownloadModes : SetDownloadMode(mode)
    \/ Cook
    \/ \E f \in Frames : Start(f)
    \/ \E f \in Frames : Resume(f)
    \/ \E s \in Steps, ok \in BOOLEAN : ScriptExit(s, ok)
    \/ \E s \in Steps, hit \in BOOLEAN : DownloadExit(s, hit)
    \/ PassEnd
    \/ \E c \in DlCfgs : Redo(c)

SpecDl == InitDl /\ [][NextDl]_vars

(***************************************************************************)
(* The prediction view: runs with downloads enabled in a project whose     *)
(* checkout step may support live build-ids, with an archive that          *)
(* translates the live build-id rightly, wrongly or not at all.            *)
(***************************************************************************)
\* <<what the SCM predicts, what the archive translates, an always-checkout
\* pattern matches, the archive can download>>
LiveKinds ==
    {<<"unsupported", "none", FALSE, TRUE>>, <<"none", "none", FALSE, TRUE>>,
     <<"some", "none", FALSE, TRUE>>, <<"some", "right", FALSE, TRUE>>,
     <<"some", "wrong", FALSE, TRUE>>, <<"some", "wrong", TRUE, TRUE>>,
     <<"some", "wrong", FALSE, FALSE>>}

LiveCfgs ==
    {[Cfg(j, k, FALSE, FALSE, FALSE, FALSE, 0, {"a_dist"}, 1, AllRoots, FALSE)
         EXCEPT !.live = x[1], !.translation = x[2], !.alwaysCheckout = x[3],
                !.canDownloadLocal = x[4]] :
        j \in 1..MaxJobs, k \in BOOLEAN, x \in LiveKinds}

\* bob dev --build-only after a run with one job that succeeded
BuildOnlyAgain ==
    /\ hist.outcome = "ok"
    /\ cfg.jobs = 1 /\ ~cfg.buildOnly
    /\ NewProcess([cfg EXCEPT !.buildOnly = TRUE])

InitLive ==
    /\ cfg \in LiveCfgs
    /\ mem = InitMem
    /\ disk = InitDisk
    /\ pending = <<>>
    /\ hist = InitHist

NextLive ==
    \/ Cook
    \/ \E f \in Frames : Start(f)
    \/ \E f \in Frames : Resume(f)
    \/ \E s \in Steps, ok \in BOOLEAN : ScriptExit(s, ok)
    \/ \E s \in Steps, hit \in BOOLEAN : DownloadExit(s, hit)
    \/ Sigint
    \/ PassEnd
    \/ BuildOnlyAgain

SpecLive == InitLive /\ [][NextLive]_vars

(***************************************************************************)
(* The paired prediction view: a run in an empty project directory whose   *)
(* scripts all succeed, and then the same run from the same empty project  *)
(* directory with a checkout step that does not support live build-ids.    *)
(* The archive holds no artifact built from other sources than the ones    *)
(* the checkout yields, and it answers the second run as it answered the   *)
(* first.                                                                  *)
(***************************************************************************)
DownloadPaired(s, wasDownloaded) ==
    LET real == [c \in Steps |-> <<hashWorkspace(Out(c, getScmDirectories(c))), FALSE>>]
    IN  /\ mem.pc[s] = "download"
        /\ wasDownloaded => mem.loc[s].bid = buildIdOf(real, disk, s)
        /\ hist.ref.valid => (wasDownloaded <=> s \in hist.ref.downloads)
        /\ DownloadExit(s, wasDownloaded)

ReplayUnpredicted ==
    /\ mem.phase = "end"
    /\ ~hist.ref.valid
    /\ cfg' = [cfg EXCEPT !.live = "unsupported"]
    /\ mem' = InitMem
    /\ disk' = InitDisk
    /\ hist' = [InitHist EXCEPT !.ref = [valid |-> TRUE, scripts |-> scriptsRun,
                                         downloads |-> downloadsDone, disk |-> disk,
                                         passes |-> hist.pass]]
    /\ UNCHANGED pending

NextLivePair ==
    \/ Cook
    \/ \E f \in Frames : Start(f)
    \/ \E f \in Frames : Resume(f)
    \/ \E s \in Steps : ScriptExit(s, TRUE)
    \/ \E s \in Steps, hit \in BOOLEAN : DownloadPaired(s, hit)
    \/ PassEnd
    \/ ReplayUnpredicted

SpecLivePair == InitLive /\ [][NextLivePair]_vars


(***************************************************************************)
(* The exception view: runs in which the code that follows a script may    *)
(* raise an exception that is no BuildError.                               *)
(***************************************************************************)
\* the script of step s returned 0, and hashWorkspace, which reads every
\* file of the workspace (lines 1104, 1181, 1298), raises an OSError
HashFails(s) ==
    /\ Active
    /\ mem.pc[s] = "script"
    /\ LET content == Out(s, IF isCheckoutStep(s) THEN getScmDirectories(s)
                             ELSE mem.loc[s].ih)
           d == [disk EXCEPT !.ws[s] = content]
       IN  Commit(d, Seg(Finish(release(mem, s), s, "exception"), <<>>, "scriptfail"), s)

ExcCfgs == {c \in SchedCfgs : ~c.skipDeps /\ ~c.checkoutOnly /\ c.downloadDepth = NoDownload}

InitExc ==
    /\ cfg \in ExcCfgs
    /\ mem = InitMem
    /\ disk = InitDisk
    /\ pending = <<>>
    /\ hist = InitHist

NextExc ==
    \/ Cook
    \/ \E f \in Frames : Start(f)
    \/ \E f \in Frames : Resume(f)
    \/ \E s \in Steps, ok \in BOOLEAN : ScriptExit(s, ok)
    \/ \E s \in Steps : HashFails(s)
    \/ PassEnd

SpecExc == InitExc /\ [][NextExc]_vars

(***************************************************************************)
(* The resume view: when cook() has returned or raised, the command saves  *)
(* the build state, and the next process, started with --resume, loads it  *)
(* into its new builder.  A was-run entry of the builder is the pair of    *)
(* the variant-id and the kind of the step; the model keeps the variant-id *)
(* per step and takes the kind from the step.                              *)
(***************************************************************************)
\* a variant of saveBuildState that saves the skipped steps as well
saveBuildStateAll(m) ==
    <<"state",
      [s \in Steps |-> IF m.wasRun[s] /= PyNone
                       THEN <<m.wasRun[s], isCheckoutStep(s)>> ELSE PyNone],
      [s \in Steps |-> IF m.srcBuildIds[s] /= PyNone /\ m.srcBuildIds[s][2]
                       THEN m.srcBuildIds[s][1] ELSE PyNone]>>

\* saveBuildState (lines 497-511): the state handed to BobState, a tuple of
\* the entries 'wasRun' and 'predictedBuidId'
saveBuildState(m) ==
    <<"state",
      [s \in Steps |-> IF m.wasRun[s] /= PyNone /\ ~m.wasSkipped[s]
                       THEN <<m.wasRun[s], isCheckoutStep(s)>> ELSE PyNone],
      [s \in Steps |-> IF m.srcBuildIds[s] /= PyNone /\ m.srcBuildIds[s][2]
                       THEN m.srcBuildIds[s][1] ELSE PyNone]>>

\* loadBuildState (lines 513-517) on the builder m
loadBuildState(m, state) ==
    IF state = PyNone THEN m
    ELSE [m EXCEPT !.wasRun = [s \in Steps |->
                       IF state[2][s] /= PyNone THEN state[2][s][1] ELSE PyNone],
                   !.srcBuildIds = [s \in Steps |->
                       IF state[3][s] /= PyNone THEN <<state[3][s], TRUE>> ELSE PyNone]]

\* line 1718: the build state is saved when cook() is over
SaveBuildState ==
    /\ mem.phase = "end"
    /\ mem' = [mem EXCEPT !.phase = "saved"]
    /\ disk' = [disk EXCEPT !.buildState = saveBuildState(mem)]
    /\ UNCHANGED <<cfg, pending, hist>>

\* bob dev --resume: a new builder that loads the build state (line 1682)
ResumeBuild(c) ==
    /\ mem.phase = "saved"
    /\ hist.run < MaxBuilds
    /\ c.jobs = cfg.jobs /\ c.live = cfg.live /\ c.translation = cfg.translation
    /\ cfg' = c
    /\ mem' = loadBuildState(InitMem, disk.buildState)
    /\ hist' = [InitHist EXCEPT !.run = hist.run + 1, !.interrupted = hist.interrupted]
    /\ UNCHANGED <<disk, pending>>

\* runs with downloads, in normal and in checkout-only mode, the checkout
\* step supporting live build-ids or not
ResumeCfgs ==
    {[Cfg(j, FALSE, FALSE, co, FALSE, FALSE, 0, {"a_dist"}, 1, AllRoots, FALSE)
         EXCEPT !.live = x[1], !.translation = x[2]] :
        j \in 1..MaxJobs, co \in BOOLEAN,
        x \in {<<"unsupported", "none">>, <<"some", "right">>, <<"some", "wrong">>}}

InitResume ==
    /\ cfg \in ResumeCfgs
    /\ mem = InitMem
    /\ disk = InitDisk
    /\ pending = <<>>
    /\ hist = InitHist

NextResume ==
    \/ Cook
    \/ \E f \in Frames : Start(f)
    \/ \E f \in Frames : Resume(f)
    \/ \E s \in Steps, ok \in BOOLEAN : ScriptExit(s, ok)
    \/ \E s \in Steps, hit \in BOOLEAN : DownloadExit(s, hit)
    \/ PassEnd
    \/ SaveBuildState
    \/ \E c \in ResumeCfgs : ResumeBuild(c)

SpecResume == InitResume /\ [][NextResume]_vars

(***************************************************************************)
(* The develop-dir oracle (class DevelopDirOracle, lines 90-230) and its   *)
(* database .bob-dev-dirs.sqlite3.  In this view cfg is the project of the *)
(* invocation (the steps in the order in which the traversal reaches them, *)
(* and whether an external persister is used), mem is the oracle object,   *)
(* disk is the database and hist counts what was done to the dirs table.   *)
(* A step is a pair <<key, package name>>, the key standing for the name   *)
(* of the recipe followed by the variant-id.  Paths are sequences of       *)
(* characters.                                                             *)
(***************************************************************************)
MaxSteps == 3
MaxVersions == 2
MaxCalls == 1

MaxEmpties == 2

MaxCheckouts == 3

DirKeys == {"k1", "k2", "k3"}

\* the names that the formatter derives base directories from: the second
\* begins with the first
PkgNames == {<<"f">>, <<"f", "o">>}

DirSteps == DirKeys \X PkgNames

\* the traversals of __touch (lines 154-172): up to MaxSteps steps
Traversals == UNION {[1..n -> DirSteps] : n \in 1..MaxSteps}

\* str(num) of line 193
str(n) == CASE n = 1 -> <<"1">> [] n = 2 -> <<"2">> [] n = 3 -> <<"3">>
            [] n = 4 -> <<"4">> [] OTHER -> <<"1", "0">>

\* os.path.join(baseDir, str(num)), line 193
join(baseDir, n) == baseDir \o <<"/">> \o str(n)

\* a variant of startswith that never matches
startswithNever(path, baseDir) == FALSE

\* path.startswith(baseDir), line 149
startswith(path, baseDir) ==
    Len(baseDir) <= Len(path) /\ SubSeq(path, 1, Len(baseDir)) = baseDir

\* self.__formatter(step, props): the base directory of the package
formatter(step) == step[2]

\* self.__externalPersister(step, props): whatever the plugin answers
externalPersister(step) == <<"x">> \o step[2]

\* packages.getCacheKey(): a digest of the recipes
getCacheKey(c) == <<"vsn", c.steps>>

\* SELECT dir FROM dirs WHERE key=? (lines 126-128)
selectDir(rows, key) ==
    IF \E r \in rows : r[1] = key THEN (CHOOSE r \in rows : r[1] = key)[2] ELSE PyNone

\* self.__dirs.setdefault(baseDir, []).append(key), line 152
setdefaultAppend(dirs, baseDir, key) ==
    IF \E i \in 1..Len(dirs) : dirs[i][1] = baseDir
    THEN [i \in 1..Len(dirs) |->
             IF dirs[i][1] = baseDir THEN <<baseDir, Append(dirs[i][2], key)>> ELSE dirs[i]]
    ELSE Append(dirs, <<baseDir, <<key>>>>)

\* the oracle object after __init__ (lines 113-120)
InitOracle ==
    [phase |-> "new", ready |-> FALSE, dirs |-> <<>>, known |-> {}, visited |-> {},
     ret |-> PyNone]

\* __fmt (lines 122-152) while the oracle is not ready
fmt(o, rows, step, external) ==
    LET key == step[1]
        path == selectDir(rows, key)
        o1 == [o EXCEPT !.visited = @ \cup {key}]
        baseDir == formatter(step)
    IN  IF key \in o.visited THEN o
        ELSE IF external THEN [o1 EXCEPT !.known = @ \cup {<<key, externalPersister(step)>>}]
        ELSE IF path /= PyNone /\ startswith(path, baseDir)
        THEN [o1 EXCEPT !.known = @ \cup {<<key, path>>}]
        ELSE [o1 EXCEPT !.dirs = setdefaultAppend(@, baseDir, key)]

RECURSIVE touch(_, _, _, _)
\* __touch (lines 154-172): the formatter is invoked for every step
touch(o, rows, steps, external) ==
    IF steps = <<>> THEN o
    ELSE touch(fmt(o, rows, Head(steps), external), rows, Tail(steps), external)

\* a variant of nextFree that takes the number as it comes
nextFreeBlind(baseDir, num, knownDirs) == num

RECURSIVE nextFree(_, _, _)
\* the loop of lines 192-197: the first number from num on whose path is
\* not the directory of a kept entry
nextFree(baseDir, num, knownDirs) ==
    IF join(baseDir, num) \in knownDirs THEN nextFree(baseDir, num + 1, knownDirs) ELSE num

RECURSIVE number(_, _, _, _)
\* lines 190-197 for the keys queued under one base directory
number(baseDir, keys, num, knownDirs) ==
    IF keys = <<>> THEN {}
    ELSE LET n == nextFree(baseDir, num, knownDirs)
         IN  {<<Head(keys), join(baseDir, n)>>} \cup number(baseDir, Tail(keys), n + 1, knownDirs)

\* a variant of writeBack that leaves the table as it is
writeBackKeeps(o, rows) == rows

\* __writeBack (lines 174-197): the new content of the dirs table
writeBack(o, rows) ==
    o.known \cup UNION {number(o.dirs[i][1], o.dirs[i][2], 1, {r[2] : r \in o.known}) :
                           i \in 1..Len(o.dirs)}

\* prime (lines 221-227) with __openAndRefresh (lines 204-219)
Prime ==
    /\ mem.phase = "new"
    /\ LET refresh == disk.vsn /= getCacheKey(cfg)
           o == touch(mem, disk.dirs, cfg.steps, cfg.external)
       IN  /\ disk' = IF refresh
                      THEN [vsn |-> getCacheKey(cfg), dirs |-> writeBack(o, disk.dirs)]
                      ELSE disk
           /\ hist' = IF refresh
                      THEN [hist EXCEPT !.queries = @ + Len(cfg.steps),
                                        !.writes = @ + 1]
                      ELSE hist
    /\ mem' = [InitOracle EXCEPT !.phase = "ready", !.ready = TRUE]
    /\ UNCHANGED <<cfg, pending>>

\* __fmt (lines 122-133) once the oracle is ready: the directory of a step
Fmt(i) ==
    /\ mem.phase = "ready"
    /\ hist.calls < MaxCalls
    /\ i \in 1..Len(cfg.steps)
    /\ mem' = [mem EXCEPT !.ret = <<cfg.steps[i], selectDir(disk.dirs, cfg.steps[i][1])>>]
    /\ hist' = [hist EXCEPT !.queries = @ + 1, !.calls = @ + 1]
    /\ UNCHANGED <<cfg, disk, pending>>

\* the next invocation of bob dev in the project, the recipes being the
\* same or others
NextVersion(steps) ==
    /\ mem.phase = "ready"
    /\ hist.run < MaxVersions
    /\ cfg' = [cfg EXCEPT !.steps = steps]
    /\ mem' = InitOracle
    /\ hist' = [run |-> hist.run + 1, queries |-> 0, writes |-> 0, calls |-> 0]
    /\ UNCHANGED <<disk, pending>>

InitDirs ==
    /\ cfg \in [steps : Traversals, external : BOOLEAN]
    /\ mem = InitOracle
    /\ disk = [vsn |-> PyNone, dirs |-> {}]
    /\ pending = <<>>
    /\ hist = [run |-> 1, queries |-> 0, writes |-> 0, calls |-> 0]

NextDirs ==
    \/ Prime
    \/ \E i \in 1..MaxSteps : Fmt(i)
    \/ \E steps \in Traversals : NextVersion(steps)

SpecDirs == InitDirs /\ [][NextDirs]_vars

(***************************************************************************)
(* The workspace-cleaning view: emptyDirectory and removePath of bob.utils *)
(* as test_utils.py exercises them.  A temporary directory holds up to     *)
(* three entries.  An entry is a file, <<"file">>, or a directory,         *)
(* <<"dir", mode, content>>, whose mode is "rwx" or, after                 *)
(* os.chmod(d, S_IRUSR | S_IXUSR), "r-x".  An entry of a directory can     *)
(* only be unlinked if the directory is writable.                          *)
(***************************************************************************)
EntryNames == {"file", "dir", "sub"}

Modes == {"rwx", "r-x"}

File == <<"file">>

Dir(mode, content) == <<"dir", mode, content>>

isDir(e) == e[1] = "dir"

TemporaryDirectory == [exists |-> TRUE, entries |-> [n \in EntryNames |-> Absent]]

removable(e) == isDir(e) => (e[2] = "rwx" \/ e[3] = {})

\* removePath: the entry is gone, or a BuildError and the entry is as before.
removePath(e) ==
    IF removable(e) THEN [raised |-> PyNone, entry |-> Absent]
    ELSE [raised |-> <<"BuildError", "Error removing">>, entry |-> e]

emptyDirectoryPartial(d) ==
    [raised |-> IF \E n \in EntryNames : ~removable(d.entries[n])
                THEN <<"BuildError", "Error cleaning">> ELSE PyNone,
     dir |-> [d EXCEPT !.entries = [n \in EntryNames |-> removePath(d.entries[n]).entry]]]

\* emptyDirectory: every entry is removed and the directory stays, or a
\* BuildError and nothing is removed.
emptyDirectory(d) ==
    IF \E n \in EntryNames : removePath(d.entries[n]).raised /= PyNone
    THEN [raised |-> <<"BuildError", "Error cleaning">>, dir |-> d]
    ELSE [raised |-> PyNone,
          dir |-> [d EXCEPT !.entries = [n \in EntryNames |-> removePath(d.entries[n]).entry]]]

\* os.mkdir(d)
Mkdir(n) ==
    /\ disk.entries[n] = Absent
    /\ disk' = [disk EXCEPT !.entries[n] = Dir("rwx", {})]
    /\ UNCHANGED <<cfg, mem, pending, hist>>

\* with open(fn, "w") as f: f.write("data"), directly in the directory
WriteFile(n) ==
    /\ disk.entries[n] = Absent
    /\ disk' = [disk EXCEPT !.entries[n] = File]
    /\ UNCHANGED <<cfg, mem, pending, hist>>

\* with open(os.path.join(d, "file"), "w") as f: f.write("data")
WriteInside(n) ==
    /\ isDir(disk.entries[n]) /\ disk.entries[n][2] = "rwx"
    /\ disk.entries[n][3] = {}
    /\ disk' = [disk EXCEPT !.entries[n] = Dir("rwx", {"file"})]
    /\ UNCHANGED <<cfg, mem, pending, hist>>

\* os.chmod(d, stat.S_IRUSR | stat.S_IXUSR) and os.chmod(d, stat.S_IRWXU)
Chmod(n, mode) ==
    /\ isDir(disk.entries[n]) /\ disk.entries[n][2] /= mode
    /\ disk' = [disk EXCEPT !.entries[n] = Dir(mode, @[3])]
    /\ UNCHANGED <<cfg, mem, pending, hist>>

\* emptyDirectory(tmp); assertRaises catches the BuildError
EmptyDirectory ==
    /\ hist.calls < MaxEmpties
    /\ LET r == emptyDirectory(disk)
       IN /\ disk' = r.dir
          /\ mem' = [raised |-> r.raised]
    /\ hist' = [calls |-> hist.calls + 1, before |-> disk]
    /\ UNCHANGED <<cfg, pending>>

InitEmpty ==
    /\ cfg = [path |-> "tmp"]
    /\ mem = [raised |-> PyNone]
    /\ disk = TemporaryDirectory
    /\ pending = <<>>
    /\ hist = [calls |-> 0, before |-> TemporaryDirectory]

NextEmpty ==
    \/ \E n \in EntryNames : Mkdir(n)
    \/ \E n \in EntryNames : WriteFile(n)
    \/ \E n \in EntryNames : WriteInside(n)
    \/ \E n \in EntryNames, mode \in Modes : Chmod(n, mode)
    \/ EmptyDirectory

SpecEmpty == InitEmpty /\ [][NextEmpty]_vars

(***************************************************************************)
(* The checkout view: _cookCheckoutStep (lines 1011-1120) on a checkout    *)
(* step without dependencies to cook, run after run in the same project    *)
(* directory, with a recipe that may change between the runs.  The recipe  *)
(* names up to two SCMs, one checked out into the workspace itself (".")   *)
(* and one into the sub-directory "sub".  A directory state maps an SCM    *)
(* directory to its digest, or to "None" for a directory that              *)
(* --clean-checkout found dirty, or to "absent" where it has no such key;  *)
(* its last component is the variant-id stored under the key None.  The    *)
(* workspace is Absent or <<"ws", root, sub>>: what lies in the workspace  *)
(* itself and what lies at the path "sub".                                 *)
(***************************************************************************)
ScmDirs == {".", "sub"}

Digests == {"d1", "d2"}

NoContent == <<"none">>

ScmContent(digest) == <<"scm", digest>>

EditedContent(digest) == <<"edited", digest>>

UserContent == <<"user">>

Workspace(root, sub) == <<"ws", root, sub>>

DirState(dirs, none) == <<"dirstate", dirs, none>>

EmptyDirState == DirState([x \in ScmDirs |-> "absent"], NoKey)

\* checkoutStep.getVariantId() of the recipe c
checkoutDigest(c) == <<"vid", c.scm, c.script>>

\* checkoutState (lines 1018-1019): the SCM directories and the variant-id
checkoutStateOf(c) == DirState(c.scm, checkoutDigest(c))

\* checkoutState.get(scmDir)
getDigest(c, x) == IF c.scm[x] = "absent" THEN "None" ELSE c.scm[x]

\* os.path.exists(os.path.join(prettySrcPath, scmDir))
pathExists(ws, x) == ws /= Absent /\ (x = "." \/ ws[3] /= NoContent)

contentAt(ws, x) == IF x = "." THEN ws[2] ELSE ws[3]

\* scm.status(): 'dirty' or 'error' unless the directory holds what the SCM
\* checked out
isDirty(ws, x) == ~pathExists(ws, x) \/ contentAt(ws, x)[1] /= "scm"

\* lines 1029-1039: --clean-checkout invalidates the dirty directories
invalidateDirty(c, ws, old) ==
    IF ~c.cleanCheckout THEN old
    ELSE DirState([x \in ScmDirs |->
                      IF old[2][x] /= "absent" /\ old[2][x] = getDigest(c, x) /\ isDirty(ws, x)
                      THEN "None" ELSE old[2][x]], old[3])

\* a variant of changedDirs that takes no directory for changed
changedDirsNone(c, old) == {}

\* lines 1049-1050: the directories of the old state that are gone from the
\* recipe, changed or invalidated
changedDirs(c, old) ==
    {x \in ScmDirs : old[2][x] /= "absent" /\ old[2][x] /= getDigest(c, x)}

\* lines 1051-1058 for the directories M: os.rename into ../attic
moveToAttic(d, M) ==
    IF "." \in M /\ pathExists(d.ws, ".")
    THEN [d EXCEPT !.attic = @ \cup {<<".", d.ws[2]>>}
                               \cup (IF pathExists(d.ws, "sub")
                                     THEN {<<"sub", d.ws[3]>>} ELSE {}),
                   !.ws = Absent]
    ELSE IF "sub" \in M /\ pathExists(d.ws, "sub")
    THEN [d EXCEPT !.attic = @ \cup {<<"sub", d.ws[3]>>},
                   !.ws = Workspace(d.ws[2], NoContent)]
    ELSE d

\* a variant of collides that finds no collision
collidesNever(c, d, old) == FALSE

\* lines 1065-1071: a new SCM directory other than "." exists already
collides(c, d, old) ==
    \E x \in ScmDirs :
        /\ c.scm[x] /= "absent" /\ x /= "."
        /\ old[2][x] \in {"absent", "None"}
        /\ pathExists(d.ws, x)

\* a variant of rerunCheckout that ignores the recipe
rerunIfForced(c, d, old) == c.force

\* lines 1043-1047
rerunCheckout(c, d, old) ==
    \/ c.force
    \/ ~c.deterministic
    \/ d.resultHash = PyNone
    \/ checkoutStateOf(c) /= old
    \/ d.depHash /= d.inputHashes

\* lines 1114-1116: rehash the workspace
rehash(d) == [d EXCEPT !.resultHash = hashWorkspace(d.ws)]

\* _cookCheckoutStep from line 1011 to the start of the script or, when the
\* script is not run, to the end: what happened, the store and the
\* workspace afterwards, the directories that were taken for changed
cookCheckoutStep(c, d) ==
    LET created == d.ws = Absent
        d0 == IF created
              THEN [d EXCEPT !.ws = Workspace(NoContent, NoContent),
                             !.dirState = EmptyDirState, !.resultHash = PyNone,
                             !.inputHashes = PyNone]
              ELSE d
        old == invalidateDirty(c, d0.ws, d0.dirState)
        M == changedDirs(c, old)
        old1 == DirState([x \in ScmDirs |-> IF x \in M THEN "absent" ELSE old[2][x]], old[3])
        dA == IF M = {} THEN d0 ELSE [moveToAttic(d0, M) EXCEPT !.dirState = old1]
        dB == [dA EXCEPT !.dirState = DirState(c.scm, NoKey),
                         !.resultHash = IF @ /= PyNone THEN Sentinel ELSE @,
                         !.ws = IF @ = Absent THEN Workspace(NoContent, NoContent) ELSE @]
    IN  IF c.buildOnly /\ d0.resultHash /= PyNone
        THEN [outcome |-> "skip_mode", disk |-> rehash(d0), moved |-> {}]
        ELSE IF ~rerunCheckout(c, d0, old)
        THEN [outcome |-> "skip_unchanged", disk |-> rehash(d0), moved |-> {}]
        ELSE IF collides(c, dA, old1)
        THEN [outcome |-> "error", disk |-> dA, moved |-> M]
        ELSE [outcome |-> "script", disk |-> dB, moved |-> M]

\* the checkout script wrote the directories W of the recipe
scriptWrites(c, ws, W) ==
    Workspace(IF "." \in W THEN ScmContent(c.scm["."]) ELSE ws[2],
              IF "sub" \in W THEN ScmContent(c.scm["sub"]) ELSE ws[3])

\* lines 1096-1100 and 1114-1116 after the script returned 0
checkoutExecuted(c, d) ==
    rehash([d EXCEPT !.dirState = checkoutStateOf(c), !.inputHashes = d.depHash])

\* the invocations: at most one of --force, --build-only, --clean-checkout
CheckoutCfgs ==
    {c \in [force : BOOLEAN, buildOnly : BOOLEAN, cleanCheckout : BOOLEAN,
            deterministic : BOOLEAN, script : 1..NumRecipes,
            scm : {f \in [ScmDirs -> {"absent"} \cup Digests] : f["."] /= "d2"}] :
        /\ ~(c.force /\ c.buildOnly) /\ ~(c.force /\ c.cleanCheckout)
        /\ ~(c.buildOnly /\ c.cleanCheckout)
        /\ c.deterministic \/ ~(c.force \/ c.buildOnly \/ c.cleanCheckout)}

InitCheckoutDisk ==
    [dirState |-> EmptyDirState, resultHash |-> PyNone, inputHashes |-> PyNone,
     ws |-> Absent, attic |-> {}, depHash |-> PyList(<<>>)]

\* _cookCheckoutStep is called and runs up to its first await
CookCheckout ==
    /\ mem.pc = "idle"
    /\ LET r == cookCheckoutStep(cfg, disk)
       IN  /\ disk' = r.disk
           /\ mem' = [pc |-> CASE r.outcome = "script" -> "script"
                               [] r.outcome = "error" -> "failed"
                               [] OTHER -> "done"]
           /\ hist' = [hist EXCEPT !.outcome = r.outcome, !.moved = r.moved,
                                   !.before = [dirState |-> disk.dirState, ws |-> disk.ws]]
    /\ UNCHANGED <<cfg, pending>>

\* the checkout script ends: with 0 after it checked out every SCM, or with
\* an error (or killed by SIGINT) after it wrote some of them
CheckoutScriptExit(ok, W) ==
    /\ mem.pc = "script"
    /\ IF ok
       THEN /\ W = {x \in ScmDirs : cfg.scm[x] /= "absent"}
            /\ disk' = checkoutExecuted(cfg, [disk EXCEPT !.ws = scriptWrites(cfg, @, W)])
            /\ mem' = [pc |-> "done"]
            /\ hist' = [hist EXCEPT !.outcome = "exec"]
       ELSE /\ W \subseteq {x \in ScmDirs : cfg.scm[x] /= "absent"}
            /\ W /= {x \in ScmDirs : cfg.scm[x] /= "absent"} \/ W = {}
            /\ disk' = [disk EXCEPT !.ws = scriptWrites(cfg, @, W)]
            /\ mem' = [pc |-> "failed"]
            /\ hist' = [hist EXCEPT !.outcome = "scriptfail"]
    /\ UNCHANGED <<cfg, pending>>

\* bob is run again in the same project directory, with any options and
\* any version of the recipe
CheckoutAgain(c) ==
    /\ mem.pc \in {"done", "failed"}
    /\ hist.run < MaxCheckouts
    /\ cfg' = c
    /\ mem' = [pc |-> "idle"]
    /\ hist' = [hist EXCEPT !.run = @ + 1, !.outcome = "none", !.moved = {},
                            !.before = [dirState |-> disk.dirState, ws |-> disk.ws],
                            !.collided = hist.outcome = "error"]
    /\ UNCHANGED <<disk, pending>>

\* between two runs the user edits a checked-out directory or creates the
\* path "sub"
UserEdits(x) ==
    /\ mem.pc = "idle" /\ hist.run > 1
    /\ pathExists(disk.ws, x)
    /\ contentAt(disk.ws, x)[1] = "scm"
    /\ disk' = [disk EXCEPT !.ws = IF x = "." THEN Workspace(EditedContent(@[2][2]), @[3])
                                   ELSE Workspace(@[2], EditedContent(@[3][2]))]
    /\ UNCHANGED <<cfg, mem, pending, hist>>

UserCreates ==
    /\ mem.pc = "idle" /\ hist.run > 1
    /\ disk.ws /= Absent /\ disk.ws[3] = NoContent
    /\ disk' = [disk EXCEPT !.ws = Workspace(@[2], UserContent)]
    /\ UNCHANGED <<cfg, mem, pending, hist>>

\* between two runs a dependency of the checkout step got another result
DepRebuilt ==
    /\ mem.pc = "idle" /\ hist.run > 1
    /\ disk.depHash = PyList(<<>>)
    /\ disk' = [disk EXCEPT !.depHash = PyList(<<hashWorkspace(Out("t_dist", <<>>))>>)]
    /\ UNCHANGED <<cfg, mem, pending, hist>>

InitCheckout ==
    /\ cfg \in CheckoutCfgs
    /\ mem = [pc |-> "idle"]
    /\ disk = InitCheckoutDisk
    /\ pending = <<>>
    /\ hist = [run |-> 1, outcome |-> "none", moved |-> {}, collided |-> FALSE,
               before |-> [dirState |-> EmptyDirState, ws |-> Absent]]

NextCheckout ==
    \/ CookCheckout
    \/ \E ok \in BOOLEAN, W \in SUBSET ScmDirs : CheckoutScriptExit(ok, W)
    \/ \E c \in CheckoutCfgs : CheckoutAgain(c)
    \/ \E x \in ScmDirs : UserEdits(x)
    \/ UserCreates
    \/ DepRebuilt

SpecCheckout == InitCheckout /\ [][NextCheckout]_vars

(***************************************************************************)
(* Properties.                                                             *)
(***************************************************************************)
scriptRuns(s) == mem.phase = "run" /\ mem.pc[s] = "script" /\ pending = <<>>

\* C1: the script of a step starts only after the cook of every valid
\* dependency step of getAllDepSteps() ended successfully in this run
\* (executed, skipped as unchanged, downloaded).  Runs with --no-deps, which
\* leave the dependencies of other packages out on purpose, are not judged.
C1_ScriptAfterDeps ==
    \A s \in Steps :
        scriptRuns(s) /\ ~cfg.skipDeps =>
            \A d \in Range(getAllDepSteps(s)) : hist.cooked[d] \in Good

\* C2: no workspace path is cooked by two tasks at once: a frame has at most
\* one live instance, and with jobs > 1 a path is registered in its tracker
\* from the creation of its task until the task ended successfully, so that
\* every request in between gets that task.
C2_OneTaskPerPath ==
    /\ \A f \in Frames : mem.live[f] <= 1
    /\ cfg.jobs > 1 /\ mem.phase = "run" =>
          /\ \A s \in Steps : s \in mem.cookTasks <=> mem.pc[s] \notin {"none", "ok"}
          /\ \A b \in BidFrames :
                StepOf(b) \in mem.buildIdTasks <=> mem.pc[b] \notin {"none", "ok"}

\* two frames wait for the same running task
C2_SharedTask ==
    /\ cfg.jobs > 1
    /\ \E s \in Steps : \E p1, p2 \in Frames :
          /\ p1 /= p2
          /\ s \in mem.waiting[p1] \cap mem.waiting[p2]
          /\ mem.pc[s] = "script"

\* C3: with jobs > 1 a failed cook task stays registered, a request that
\* comes after the failure gets the failed task and fails with it, and the
\* script of no step is started twice in a pass.
C3_FailedTaskStays ==
    cfg.jobs > 1 /\ mem.phase = "run" =>
        /\ \A s \in Steps : mem.pc[s] = "failed" => s \in mem.cookTasks
        /\ \A s \in Steps : hist.nScript[s] <= 1
        /\ \A pr \in mem.reusedFailed :
              /\ mem.pc[pr[2]] = "failed"
              /\ \/ mem.pc[pr[1]] \in {"failed", "cancelled"}
                 \/ mem.pc[pr[1]] \in Yielded /\ mem.childExc[pr[1]] = "cancel"

\* a step was requested after its task had failed
C3_LateRequest ==
    /\ cfg.jobs > 1
    /\ \E pr \in mem.reusedFailed : pr[2] \in Steps /\ hist.nScript[pr[2]] = 1

\* C4: the tasks that hold a job slot (those whose script or download runs)
\* and the free slots add up to jobs, so at most jobs scripts run at once.
C4_JobSlots ==
    mem.phase = "run" =>
        /\ mem.runners >= 0
        /\ Cardinality({s \in Steps : mem.pc[s] \in {"script", "download"}}) + mem.runners
              = cfg.jobs
        /\ Cardinality({s \in Steps : mem.pc[s] = "script"}) <= cfg.jobs

\* all job slots are taken by scripts and another task waits for one
C4_AllSlotsBusy ==
    /\ mem.phase = "run"
    /\ cfg.jobs = MaxJobs
    /\ Cardinality({s \in Steps : mem.pc[s] = "script"}) = cfg.jobs
    /\ mem.runners = 0
    /\ \E f \in Frames : mem.pc[f] = "new"

\* C5: every pass ends, whatever the number of jobs (the chain of frames
\* from a root to the tool is deeper than jobs), and a pass without error
\* and without SIGINT ends with every root cooked.
C5_Terminates ==
    /\ (mem.phase = "run") ~> (mem.phase = "end")
    /\ [](mem.phase = "end" /\ ~hist.sigint /\ mem.buildErrors = <<>> =>
             /\ hist.outcome = "ok"
             /\ \A r \in Range(cfg.roots) : hist.cooked[r] /= "no")

\* a build with one job went down the whole chain and ended well
C5_DeepChainDone ==
    /\ mem.phase = "end"
    /\ hist.outcome = "ok"
    /\ cfg.jobs = 1
    /\ hist.cooked["t_dist"] = "exec"
    /\ \A r \in Range(cfg.roots) : hist.cooked[r] = "exec"

\* C6: from the same project directory and with the same options, a run
\* with jobs = N > 1 runs the same scripts and downloads as the run with
\* jobs = 1 and leaves the same store and workspaces.
C6_SameEffects ==
    mem.phase = "end" /\ hist.ref.valid =>
        /\ scriptsRun = hist.ref.scripts
        /\ downloadsDone = hist.ref.downloads
        /\ disk = hist.ref.disk

\* C7: a step is skipped as unchanged or as already downloaded only while
\* its workspace holds a complete result that the stored result hash
\* describes, also when earlier runs crashed between two operations.
C7_NoSkipOfEmptied ==
    \A s \in Steps :
        hist.cooked[s] \in {"skip_unchanged", "dlskip"} /\ pending = <<>> =>
            /\ disk.ws[s][1] \in {"out", "download"}
            /\ disk.resultHash[s] = hashWorkspace(disk.ws[s])

C10_StoredAfterSuccess ==
    \A s \in Steps :
        hist.cooked[s] \in {"exec", "download"} /\ pending = <<>> =>
            /\ disk.variantId[s] /= PyNone
            /\ disk.inputHashes[s] /= PyNone
            /\ disk.resultHash[s] = hashWorkspace(disk.ws[s])

\* a build step and a downloaded package ended successfully
C10_BuiltAndDownloaded ==
    /\ hist.cooked["a_src"] = "exec"
    /\ hist.cooked["t_dist"] = "exec"
    /\ hist.cooked["a_dist"] = "download"

C12_BuildOnlyNoop ==
    /\ hist.prev.after /\ hist.prev.normal /\ hist.prev.onlyMode =>
           \A s \in Steps : /\ hist.nScript[s] = 0
                            /\ mem.pc[s] /= "download"
                            /\ hist.cooked[s] /= "download"
    /\ cfg.buildOnly =>
           \A s \in Steps : isCheckoutStep(s) /\ scriptRuns(s) => disk.resultHash[s] = PyNone

\* C12 amended: the same, for a build-only run without --force.
C12_BuildOnlyNoopUnforced ==
    /\ hist.prev.after /\ hist.prev.normal /\ hist.prev.onlyMode /\ ~cfg.force =>
           \A s \in Steps : /\ hist.nScript[s] = 0
                            /\ mem.pc[s] /= "download"
                            /\ hist.cooked[s] /= "download"
    /\ cfg.buildOnly =>
           \A s \in Steps : isCheckoutStep(s) /\ scriptRuns(s) => disk.resultHash[s] = PyNone

\* a build-only run after a successful normal run ended: the checkout was
\* held back, build and package steps found nothing to do
C12_BuildOnlyAfterNormal ==
    /\ hist.prev.after /\ hist.prev.normal /\ hist.prev.onlyMode /\ ~cfg.force
    /\ cfg.buildOnly
    /\ mem.phase = "end" /\ hist.outcome = "ok"
    /\ hist.cooked["a_src"] = "skip_mode"
    /\ hist.cooked["a_build"] = "skip_unchanged"
    /\ hist.cooked["a_dist"] \in {"skip_unchanged", "dlskip"}

\* C13: for a package step that is not relocatable and has no sandbox the
\* archive download is never started, whatever the download mode, the depth,
\* --force and the stored state are; when such a step is cooked successfully
\* it was built locally (executed or skipped as unchanged).
C13_NoDownloadUnlessRelocatable ==
    \A s \in Steps :
        isPackageStep(s) /\ s \notin cfg.relocatable /\ s \notin cfg.sandbox =>
            /\ mem.pc[s] /= "download"
            /\ mem.loc[s].dl = "no"
            /\ hist.cooked[s] \in {"no", "skip_mode", "exec", "skip_unchanged"}

\* a package that was downloaded by an earlier process is no longer
\* relocatable, the download mode is forced, and its build step runs for it
C13_LocalAfterDownload ==
    /\ hist.run = 2
    /\ "a_dist" \notin cfg.relocatable /\ "a_dist" \notin cfg.sandbox
    /\ cfg.downloadDepth = 0 /\ cfg.downloadDepthForce = 0
    /\ isBytes(disk.inputHashes["a_dist"])
    /\ mem.phase = "run" /\ mem.pc["a_dist"] = "deps" /\ mem.pc["a_build"] = "script"

\* C14: the archive download of a step is started only for a package step
\* that is not cooked checkout-only, has a build-id and whose depth is at
\* least downloadDepth; after a failed download at a depth of at least
\* downloadDepthForce the step has failed without its script being started
\* and cook() raises; after a failed download at a smaller depth the step
\* goes on locally: it fails only if its own script or one of its
\* dependencies fails, and in a successful run it was built locally.
C14_DownloadByDepth ==
    \A s \in Steps :
        /\ mem.loc[s].dl /= "no" =>
               /\ isPackageStep(s) /\ ~mem.tmode[s] /\ mem.loc[s].bid /= PyNone
               /\ mem.tdepth[s] >= cfg.downloadDepth
        /\ mem.loc[s].dl = "miss" /\ mem.tdepth[s] >= cfg.downloadDepthForce =>
               /\ mem.pc[s] = "failed" /\ hist.nScript[s] = 0 /\ hist.cooked[s] = "no"
               /\ mem.phase = "end" => hist.outcome = "error"
        /\ mem.loc[s].dl = "miss" /\ mem.tdepth[s] < cfg.downloadDepthForce =>
               /\ mem.pc[s] = "failed" => hist.nScript[s] > 0 \/ mem.childExc[s] /= "none"
               /\ mem.phase = "end" /\ hist.outcome = "ok" =>
                      hist.cooked[s] \in {"exec", "skip_unchanged"}

\* mode forced-fallback: the tool was downloaded below the root, the
\* download of the root package failed at depth 0 and the package went on
\* to cook its dependencies
C14_FallbackAtRoot ==
    /\ cfg.downloadDepth = 0 /\ cfg.downloadDepthForce = 1
    /\ mem.loc["t_dist"].dl = "hit" /\ mem.tdepth["t_dist"] >= 1
    /\ mem.loc["a_dist"].dl = "miss" /\ mem.tdepth["a_dist"] = 0
    /\ mem.phase = "run" /\ mem.pc["a_dist"] = "deps"

\* C15: after setDownloadMode(mode) the pair (downloadDepth,
\* downloadDepthForce) is the row of the mode in the table of download
\* modes, whatever was set before.
C15_PairMatchesTable ==
    LET inf == NoDownload
        can == IF cfg.canDownloadLocal THEN 0 ELSE inf
        row == CASE hist.mode = "no" -> <<inf, inf>>
                 [] hist.mode = "yes" -> <<can, inf>>
                 [] hist.mode = "forced" -> <<0, 0>>
                 [] hist.mode = "deps" -> <<IF cfg.canDownloadLocal THEN 1 ELSE inf, inf>>
                 [] hist.mode = "forced-deps" -> <<1, 1>>
                 [] OTHER -> <<0, 1>>
    IN  hist.mode /= "none" => <<cfg.downloadDepth, cfg.downloadDepthForce>> = row

\* what does hold: the same for the first call on a new builder
C15_FirstCallMatchesTable ==
    LET inf == NoDownload
        can == IF cfg.canDownloadLocal THEN 0 ELSE inf
        row == CASE hist.mode = "no" -> <<inf, inf>>
                 [] hist.mode = "yes" -> <<can, inf>>
                 [] hist.mode = "forced" -> <<0, 0>>
                 [] hist.mode = "deps" -> <<IF cfg.canDownloadLocal THEN 1 ELSE inf, inf>>
                 [] hist.mode = "forced-deps" -> <<1, 1>>
                 [] OTHER -> <<0, 1>>
    IN  hist.nModes = 1 => <<cfg.downloadDepth, cfg.downloadDepthForce>> = row

\* C16: when the cook of a package step ended with a successful download or
\* with "skipped (already downloaded)", none of its dependency steps was
\* cooked in this run (no frame, no script, no result) and the stored input
\* hashes of the package are its bare build-id.
C16_DownloadedCooksNoDeps ==
    \A s \in Steps :
        isPackageStep(s) /\ hist.cooked[s] \in {"download", "dlskip"} =>
            /\ \A dep \in Range(getAllDepSteps(s)) :
                   /\ mem.pc[dep] = "none" /\ mem.live[dep] = 0
                   /\ hist.nScript[dep] = 0 /\ hist.cooked[dep] = "no"
            /\ isBytes(disk.inputHashes[s])
            /\ disk.inputHashes[s][2] = mem.loc[s].bid

\* the second process found the package downloaded by the first one and
\* skipped it; its build step was not touched
C16_SkippedAsDownloaded ==
    /\ hist.run = 2
    /\ hist.cooked["a_dist"] = "dlskip"
    /\ mem.phase = "end" /\ hist.outcome = "ok"
    /\ disk.ws["a_build"] = Absent

\* C17: when a checkout ends with a hash other than the build-id cached for
\* it, the stored live build-id of the step is gone, the cached src-build-id
\* is (real hash, not predicted), no build-id of another step is cached, no
\* build or package step is marked as run, the checkout steps that were
\* marked stay marked, and the restart signal is raised.
C17_Recovery ==
    [][\A s \in Steps :
          /\ isCheckoutStep(s) /\ mem.pc[s] = "script" /\ mem'.pc[s] /= "script"
          /\ disk'.ws[s][1] = "out"
          /\ mem.srcBuildIds[s] /= PyNone
          /\ mem.srcBuildIds[s][1] /= hashWorkspace(disk'.ws[s])
          => /\ disk'.liveBuildId[s] = PyNone
             /\ mem'.srcBuildIds[s] = <<hashWorkspace(disk'.ws[s]), FALSE>>
             /\ \A x \in Steps : mem'.buildDistBuildIds[x] = PyNone
             /\ \A x \in Steps : mem'.wasRun[x] /= PyNone => isCheckoutStep(x)
             /\ mem'.wasRun[s] = getVariantId(s)
             /\ mem'.pc[s] = "failed"
             /\ IF IsTask(s) THEN mem'.restart \/ ~mem.running
                ELSE \E p \in Frames : mem'.childExc[p] = "restart"]_vars

\* the recovery has happened: the prediction of the archive was wrong, the
\* checkout has run, and the restart is asked for
C17_Mispredicted ==
    /\ mem.phase = "run" /\ mem.restart /\ hist.pass = 1
    /\ cfg.translation = "wrong"
    /\ mem.srcBuildIds["a_src"] = <<disk.resultHash["a_src"], FALSE>>
    /\ disk.translated["a_src"] /= disk.resultHash["a_src"]
    /\ disk.liveBuildId["a_src"] = PyNone

\* C18 as stated: when the dispatcher of a pass is done and a task has asked
\* for a restart, cook() starts a new pass over the same roots with empty
\* cookTasks, buildIdTasks and buildErrors and a semaphore of size jobs; the
\* was-run marks and the src-build-ids are those of the pass before.
C18_RestartStartsNewPass ==
    [][mem.phase = "run" /\ mem.pc["D"] \in Done /\ mem.restart /\ mem' /= mem
          => /\ mem'.phase = "run" /\ hist'.pass = hist.pass + 1
             /\ mem'.pc["D"] = "new" /\ mem'.tmode["D"] = cfg.checkoutOnly
             /\ \A f \in Frames \ {"D"} : mem'.pc[f] = "none"
             /\ mem'.running /\ ~mem'.restart
             /\ mem'.cookTasks = {} /\ mem'.buildIdTasks = {}
             /\ mem'.buildErrors = <<>> /\ mem'.runners = cfg.jobs
             /\ mem'.wasRun = mem.wasRun /\ mem'.srcBuildIds = mem.srcBuildIds
             /\ cfg' = cfg]_vars

\* C18 amended: the same when the pass recorded no build error; when it
\* recorded one, cook() raises it and no further pass is started.
C18_RestartUnlessError ==
    [][mem.phase = "run" /\ mem.pc["D"] \in Done /\ mem.restart /\ mem' /= mem
          => IF mem.buildErrors /= <<>>
             THEN mem'.phase = "end" /\ hist'.outcome = "error"
             ELSE /\ mem'.phase = "run" /\ hist'.pass = hist.pass + 1
                  /\ mem'.pc["D"] = "new" /\ mem'.tmode["D"] = cfg.checkoutOnly
                  /\ \A f \in Frames \ {"D"} : mem'.pc[f] = "none"
                  /\ mem'.running /\ ~mem'.restart
                  /\ mem'.cookTasks = {} /\ mem'.buildIdTasks = {}
                  /\ mem'.buildErrors = <<>> /\ mem'.runners = cfg.jobs
                  /\ mem'.wasRun = mem.wasRun /\ mem'.srcBuildIds = mem.srcBuildIds
                  /\ cfg' = cfg]_vars

\* the second pass with two jobs has begun: the checkout is marked as run,
\* its real hash is cached, nothing else is left of the first pass
C18_SecondPass ==
    /\ cfg.jobs = 2
    /\ mem.phase = "run" /\ hist.pass = 2 /\ mem.pc["D"] = "new"
    /\ mem.cookTasks = {} /\ mem.runners = 2
    /\ mem.wasRun["a_src"] /= PyNone
    /\ mem.srcBuildIds["a_src"] = <<disk.resultHash["a_src"], FALSE>>

\* C20: a build-id of a checkout step enters the cache as predicted only if
\* the workspace does not exist, no always-checkout pattern matches, the
\* step supports live build-ids, the archive can download, and the live
\* build-id was obtained and translated (both are in the store then); in
\* every other case the checkout step has been cooked and the cached pair
\* is (stored result hash, not predicted).
C20_PredictedOnlyIf ==
    [][\A c \in Steps :
          isCheckoutStep(c) /\ mem.srcBuildIds[c] = PyNone /\ mem'.srcBuildIds[c] /= PyNone
          => IF mem'.srcBuildIds[c][2]
             THEN /\ ~exists(disk, c) /\ ~cfg.alwaysCheckout
                  /\ cfg.live /= "unsupported" /\ cfg.canDownloadLocal
                  /\ disk'.liveBuildId[c] /= PyNone
                  /\ disk'.translated[c] = mem'.srcBuildIds[c][1]
                  /\ mem'.wasRun[c] = PyNone /\ disk'.ws[c] = Absent
             ELSE /\ mem'.wasRun[c] = getVariantId(c)
                  /\ isContentHash(disk'.resultHash[c])
                  /\ mem'.srcBuildIds[c][1] = disk'.resultHash[c]]_vars

\* a build-only run with one job reused the live build-id that the run
\* before had stored, and downloaded the package with the predicted
\* build-id; the sources were never checked out
C20_PredictedFromCache ==
    /\ hist.run = 2 /\ cfg.buildOnly
    /\ mem.phase = "end" /\ hist.outcome = "ok"
    /\ mem.srcBuildIds["a_src"] /= PyNone /\ mem.srcBuildIds["a_src"][2]
    /\ disk.ws["a_src"] = Absent
    /\ hist.cooked["a_dist"] = "dlskip"

\* C19 as stated: when the mispredict recovery fired in a run, the store
\* and the workspaces at the end of the run equal those at the end of the
\* run from the same initial state without live build-id prediction.
C19_SameAsUnpredicted ==
    mem.phase = "end" /\ hist.ref.valid /\ hist.ref.passes > 1 => disk = hist.ref.disk

\* what does hold: they are equal except for the translation of the live
\* build-id, which stays in the store, and the same scripts and downloads
\* have run.
C19_SameButTranslation ==
    mem.phase = "end" /\ hist.ref.valid /\ hist.ref.passes > 1 =>
        /\ [hist.ref.disk EXCEPT !.translated = disk.translated] = disk
        /\ hist.ref.scripts = scriptsRun
        /\ hist.ref.downloads = downloadsDone

\* both runs ended, the first after a restart; the package was downloaded
\* with the build-id of the real sources
C19_RecoveredAndReplayed ==
    /\ mem.phase = "end" /\ hist.ref.valid /\ hist.ref.passes = 2
    /\ hist.outcome = "ok"
    /\ hist.cooked["a_dist"] = "download"
    /\ hist.ref.disk.translated["a_src"] /= PyNone

\* the root step r was cooked successfully in this run and its result is
\* stored; if it was built here, so was every step it is built from
cookedToCompletion(r) ==
    /\ hist.cooked[r] \in Good
    /\ disk.resultHash[r] = hashWorkspace(disk.ws[r])
    /\ hist.cooked[r] = "exec" /\ ~cfg.skipDeps =>
           \A x \in Range(getAllDepSteps(r)) :
               /\ hist.cooked[x] \in Good
               /\ \A y \in Range(getAllDepSteps(x)) : hist.cooked[y] \in Good

\* the steps that package app is built from, its tool included
appSteps == {"a_src", "a_build", "a_dist", "t_dist"}

\* C21 as stated: with keep-going and the two independent roots, when the
\* run ended with the errors of one package only, the root of the other
\* package was cooked to completion in the same run, whatever jobs is.
C21_OtherCompletes ==
    /\ mem.phase = "end" /\ cfg.keepGoing /\ ~cfg.checkoutOnly /\ ~hist.sigint
    /\ mem.buildErrors /= <<>>
    => /\ Range(mem.buildErrors) \subseteq appSteps => cookedToCompletion("l_dist")
       /\ Range(mem.buildErrors) = {"l_dist"} => cookedToCompletion("a_dist")

\* what does hold: the same for runs with more than one job
C21_OtherCompletesParallel ==
    /\ mem.phase = "end" /\ cfg.keepGoing /\ ~cfg.checkoutOnly /\ ~hist.sigint
    /\ mem.buildErrors /= <<>> /\ cfg.jobs > 1
    => /\ Range(mem.buildErrors) \subseteq appSteps => cookedToCompletion("l_dist")
       /\ Range(mem.buildErrors) = {"l_dist"} => cookedToCompletion("a_dist")

\* C22 as stated: with keep-going, when the script of exactly one step
\* failed in the run, cook() raises a MultiBobError whose list holds exactly
\* the error of that step.
C22_RaisesMultiOfOne ==
    /\ mem.phase = "end" /\ cfg.keepGoing /\ ~hist.sigint
    /\ Cardinality(hist.interrupted) = 1
    => \A s \in hist.interrupted : hist.raised = <<"MultiBobError", <<s>>>>

\* C22 amended: then the error list holds exactly the error of that step,
\* and cook() raises that error itself, not wrapped in a MultiBobError.
C22_RaisesTheOne ==
    /\ mem.phase = "end" /\ cfg.keepGoing /\ ~hist.sigint
    /\ Cardinality(hist.interrupted) = 1
    => \A s \in hist.interrupted :
           /\ mem.buildErrors = <<s>>
           /\ hist.raised = <<"raise", s>>

\* a keep-going run with two jobs ended: the build script of app failed,
\* lib was cooked, and cook() raised the error of the build step
C22_OneOfTwoFailed ==
    /\ mem.phase = "end" /\ cfg.keepGoing /\ ~hist.sigint /\ cfg.jobs = 2
    /\ hist.interrupted = {"a_build"}
    /\ hist.cooked["l_dist"] = "exec"
    /\ hist.raised = <<"raise", "a_build">>

\* C23: when cook() has ended, it has raised a MultiBobError holding the
\* whole error list if the list has more than one entry, the single error
\* itself if it has one, and nothing taken from the list if it is empty;
\* the entries are errors of steps, and at any time no step has two entries,
\* however many tasks waited for it.
C23_RaisedFromList ==
    /\ \A i, j \in 1..Len(mem.buildErrors) :
           /\ mem.buildErrors[i] \in Steps
           /\ mem.buildErrors[i] = mem.buildErrors[j] => i = j
    /\ mem.phase = "end" =>
           /\ Len(mem.buildErrors) > 1 => hist.raised = <<"MultiBobError", mem.buildErrors>>
           /\ Len(mem.buildErrors) = 1 => hist.raised = <<"raise", mem.buildErrors[1]>>
           /\ Len(mem.buildErrors) = 0 =>
                  hist.raised \in {PyNone, <<"BuildError", "Canceled by user!">>}

\* a keep-going run with two jobs ended with a MultiBobError of two errors,
\* one of them the error of the tool, for which the tasks of the checkout
\* and of the build step of app had both asked
C23_TwoErrors ==
    /\ mem.phase = "end" /\ cfg.jobs = 2
    /\ Len(mem.buildErrors) = 2 /\ "t_dist" \in Range(mem.buildErrors)
    /\ mem.pc["a_src"] = "failed" /\ mem.pc["a_build"] = "failed"
    /\ hist.raised = <<"MultiBobError", mem.buildErrors>>

\* an error is raised in the task of step s: its script fails, or the
\* code after the script raises an exception
errorRaisedIn(s) ==
    /\ IsTask(s) /\ mem.pc[s] = "script" /\ mem'.pc[s] = "failed"

\* the error of the task of step s is recorded and handed on as a
\* cancellation
recordedAndCancelled(s) ==
    /\ Len(mem'.buildErrors) = Len(mem.buildErrors) + 1
    /\ mem'.buildErrors[Len(mem'.buildErrors)] \in {s, "exception"}
    /\ \A p \in Frames : s \in mem.waiting[p] => mem'.childExc[p] = "cancel"

\* C24 as stated: every error raised in a step task, a BuildError or any
\* other exception, is recorded in the error list and handed to the waiting
\* tasks as a cancellation, and without keep-going it clears running.
C24_EveryErrorStops ==
    [][\A s \in Steps :
          errorRaisedIn(s) =>
              /\ recordedAndCancelled(s)
              /\ ~cfg.keepGoing => ~mem'.running]_vars

\* what does hold: every error is recorded and handed on as a cancellation;
\* without keep-going a BuildError clears running, another exception
\* leaves running as it is
C24_BuildErrorStops ==
    [][\A s \in Steps :
          errorRaisedIn(s) =>
              /\ recordedAndCancelled(s)
              /\ IF mem'.buildErrors[Len(mem'.buildErrors)] = "exception"
                 THEN mem'.running = mem.running
                 ELSE ~cfg.keepGoing => ~mem'.running]_vars

\* what the store and the workspace hold of step s
stored(d, s) ==
    <<d.dirState[s], d.inputHashes[s], d.resultHash[s], d.variantId[s], d.ws[s]>>

\* C25: after SIGINT the run is not running and stays so; no script and no
\* download is started, no further pass is entered, whether or not a
\* restart had been asked for; what the store and the workspace hold of a
\* step whose cook had ended successfully stays as it is; and cook() ends
\* with the collected errors if there are any and with "Canceled by user!"
\* otherwise.
C25_AfterSigint ==
    /\ [][hist.sigint /\ hist'.run = hist.run =>
             /\ hist'.pass = hist.pass
             /\ \A s \in Steps :
                    /\ hist'.nScript[s] = hist.nScript[s]
                    /\ mem'.pc[s] \in {"script", "download"} => mem'.pc[s] = mem.pc[s]
                    /\ hist.cooked[s] \in Good => stored(disk', s) = stored(disk, s)]_vars
    /\ [](hist.sigint =>
             /\ ~mem.running /\ ~mem.restart
             /\ mem.phase = "end" =>
                    hist.raised = IF Len(mem.buildErrors) > 1
                                  THEN <<"MultiBobError", mem.buildErrors>>
                                  ELSE IF Len(mem.buildErrors) = 1
                                  THEN <<"raise", mem.buildErrors[1]>>
                                  ELSE <<"BuildError", "Canceled by user!">>)

\* a run in which the checkout ended with another hash than the predicted
\* one, so that a restart was due, got a SIGINT and ended in its first pass
\* with "Canceled by user!"; the tool, cooked before, is still stored
C25_CanceledNotRestarted ==
    /\ hist.sigint /\ mem.phase = "end" /\ hist.pass = 1
    /\ cfg.translation = "wrong"
    /\ mem.srcBuildIds["a_src"] = <<disk.resultHash["a_src"], FALSE>>
    /\ disk.translated["a_src"] /= disk.resultHash["a_src"]
    /\ hist.raised = <<"BuildError", "Canceled by user!">>
    /\ hist.cooked["t_dist"] = "exec"
    /\ disk.resultHash["t_dist"] = hashWorkspace(disk.ws["t_dist"])

\* the keys that the traversal of the invocation visits
visitedKeys == {cfg.steps[i][1] : i \in 1..Len(cfg.steps)}

\* the position at which the traversal visits key k first
firstVisit(k) == CHOOSE i \in 1..Len(cfg.steps) :
                     /\ cfg.steps[i][1] = k
                     /\ \A j \in 1..(i - 1) : cfg.steps[j][1] /= k

\* sequence p begins with sequence b
beginsWith(p, b) == Len(b) <= Len(p) /\ \A i \in 1..Len(b) : p[i] = b[i]

\* C26: with the internal algorithm, the dirs table never holds two rows
\* with the same key nor two keys with the same directory, whatever the
\* package graphs of this and of the earlier invocations were; once the
\* oracle is primed every key that the traversal visits has a row, and the
\* formatter answers every step with the directory of the row of its key.
C26_CollisionFree ==
    ~cfg.external =>
        /\ \A r1, r2 \in disk.dirs : r1[1] = r2[1] \/ r1[2] = r2[2] => r1 = r2
        /\ mem.phase = "ready" =>
               /\ \A k \in visitedKeys : \E r \in disk.dirs : r[1] = k
               /\ mem.ret /= PyNone =>
                      /\ mem.ret[2] /= PyNone
                      /\ <<mem.ret[1][1], mem.ret[2]>> \in disk.dirs

\* the second invocation has refreshed the table for a graph in which two
\* packages with different names have a step with the same key, and the
\* formatter was asked for one of them
C26_SharedKey ==
    /\ ~cfg.external /\ mem.phase = "ready" /\ hist.run = 2 /\ hist.writes = 1
    /\ Cardinality(disk.dirs) = 2
    /\ \E i, j \in 1..Len(cfg.steps) :
           /\ cfg.steps[i][1] = cfg.steps[j][1] /\ cfg.steps[i][2] /= cfg.steps[j][2]
           /\ mem.ret /= PyNone /\ mem.ret[1] = cfg.steps[j] /\ i < j

\* C27: when the oracle is primed with the internal algorithm and the stored
\* vsn equals the cache key, the database is left as it is.  Otherwise a
\* visited key that has a row whose dir begins with the base directory
\* computed for the key now keeps that dir; every other visited key gets
\* <baseDir>/<N>, where the N of the keys queued under one base directory
\* are, in the order of the traversal, the numbers from 1 upward whose path
\* is not the dir of a kept row.
C27_KeepOrNumber ==
    [][mem.phase = "new" /\ mem'.phase = "ready" /\ ~cfg.external =>
          LET base(k) == cfg.steps[firstVisit(k)][2]
              keeps(k) == \E r \in disk.dirs : r[1] = k /\ beginsWith(r[2], base(k))
              keptDirs == {r[2] : r \in {x \in disk.dirs : x[1] \in visitedKeys /\ keeps(x[1])}}
              free(b, n) == join(b, n) \notin keptDirs
              rank(k) == Cardinality({q \in visitedKeys :
                             /\ ~keeps(q) /\ base(q) = base(k)
                             /\ firstVisit(q) <= firstVisit(k)})
          IN  IF disk.vsn = <<"vsn", cfg.steps>>
              THEN disk' = disk
              ELSE /\ disk'.vsn = <<"vsn", cfg.steps>>
                   /\ \A k \in visitedKeys :
                          IF keeps(k)
                          THEN \E r \in disk.dirs : r[1] = k /\ r \in disk'.dirs
                          ELSE \E n \in 1..9 :
                                   /\ <<k, join(base(k), n)>> \in disk'.dirs
                                   /\ free(base(k), n)
                                   /\ Cardinality({m \in 1..n : free(base(k), m)}) = rank(k)]_vars

\* a refresh kept the row f/2 of one key and numbered two new keys of the
\* same base directory around it: f/1 and f/3
C27_NumberedAround ==
    /\ ~cfg.external /\ mem.phase = "ready" /\ hist.run = 2 /\ hist.writes = 1
    /\ cfg.steps = <<<<"k2", <<"f">>>>, <<"k1", <<"f">>>>, <<"k3", <<"f">>>>>>
    /\ disk.dirs = {<<"k2", <<"f", "/", "2">>>>, <<"k1", <<"f", "/", "1">>>>,
                    <<"k3", <<"f", "/", "3">>>>}

\* C28 as stated: with an external persister no formatter call and no
\* refresh queries or modifies the dirs table.
C28_TableUntouched ==
    [][cfg.external /\ hist'.run = hist.run =>
          disk'.dirs = disk.dirs /\ hist'.queries = hist.queries]_vars

\* C28 amended: with an external persister the refresh replaces the rows of
\* the dirs table by one row per visited key, holding what the persister
\* answered for the step with which the key was visited first; no number is
\* assigned; the formatter of the primed oracle answers from the table.
C28_TableCachesPersister ==
    cfg.external /\ mem.phase = "ready" =>
        /\ disk.dirs = {<<k, <<"x">> \o cfg.steps[firstVisit(k)][2]>> : k \in visitedKeys}
        /\ mem.ret /= PyNone =>
               /\ hist.queries > 0
               /\ mem.ret[2] = <<"x">> \o cfg.steps[firstVisit(mem.ret[1][1])][2]

\* with an external persister the second invocation has rewritten the table
\* and the formatter has answered from it
C28_AnsweredFromTable ==
    /\ cfg.external /\ mem.phase = "ready" /\ hist.run = 2 /\ hist.writes = 1
    /\ Cardinality(disk.dirs) = 2
    /\ mem.ret /= PyNone /\ <<mem.ret[1][1], mem.ret[2]>> \in disk.dirs

\* a builder loads the build state that the builder before it has saved
resumes == mem.phase = "saved" /\ mem'.phase = "idle"

\* C29 as stated: the builder that loads the saved build state holds the
\* was-run marks and the predicted src-build-ids that the saving builder
\* held, whatever that builder's state was.
C29_RoundTrip ==
    [][resumes =>
          /\ mem'.wasRun = mem.wasRun
          /\ \A s \in Steps :
                 mem'.srcBuildIds[s] =
                     IF mem.srcBuildIds[s] /= PyNone /\ mem.srcBuildIds[s][2]
                     THEN mem.srcBuildIds[s] ELSE PyNone]_vars

\* C29 amended: it holds the was-run marks of the steps that were not marked
\* as skipped, and none of the others; it holds the predicted src-build-ids,
\* and none of the non-predicted ones.
C29_RoundTripOfExecuted ==
    [][resumes =>
          \A s \in Steps :
              /\ mem'.wasRun[s] = IF mem.wasSkipped[s] THEN PyNone ELSE mem.wasRun[s]
              /\ ~mem'.wasSkipped[s]
              /\ mem'.srcBuildIds[s] =
                     IF mem.srcBuildIds[s] /= PyNone /\ mem.srcBuildIds[s][2]
                     THEN mem.srcBuildIds[s] ELSE PyNone]_vars

\* after a checkout-only run whose build-id prediction held, the resuming
\* builder has the mark of the checkout step, which ran, not the mark of
\* the build step, which was skipped, and the predicted src-build-id
C29_ResumedAfterCheckoutOnly ==
    /\ hist.run = 2 /\ mem.phase = "idle"
    /\ mem.wasRun["a_src"] = getVariantId("a_src")
    /\ mem.wasRun["a_build"] = PyNone
    /\ disk.resultHash["a_build"] = PyNone /\ disk.ws["a_build"] /= Absent
    /\ mem.srcBuildIds["a_src"] /= PyNone /\ mem.srcBuildIds["a_src"][2]

readOnlyWithContent(e) == isDir(e) /\ e[2] = "r-x" /\ e[3] /= {}

leavesYield(f) ==
    /\ mem.phase = "run" /\ mem'.phase = "run" /\ hist'.pass = hist.pass
    /\ f /= "D" /\ mem.pc[f] \in Yielded
    /\ mem'.pc[f] /= mem.pc[f] \/ (mem.waiting[f] = {} /\ mem'.waiting[f] /= {})

\* C31: a frame leaves __yieldJobWhile only with a job slot that was free;
\* if it was cancelled while waiting it ends with the CancelledError, if
\* running is false it ends with a cancellation, and in both cases it has
\* given the slot back; if it yields again the slot is free again; otherwise
\* it holds one slot.  The free slots never exceed jobs.
C31_YieldReacquires ==
    /\ [][\A f \in Frames : leavesYield(f) =>
            /\ mem.runners > 0
            /\ mem.cancelReq[f] => mem'.pc[f] = "cancelled"
            /\ ~mem.running => mem'.pc[f] \in {"failed", "cancelled"}
            /\ mem'.runners = IF mem'.pc[f] \in {"script", "download"}
                              THEN mem.runners - 1 ELSE mem.runners]_vars
    /\ [](mem.phase = "run" => mem.runners \in 0..cfg.jobs)

\* a task was cancelled by SIGINT inside __yieldJobWhile while both job
\* slots were taken, and has ended with the CancelledError after it got a
\* slot back
C31_CancelledWhileYielded ==
    /\ cfg.jobs = 2 /\ hist.sigint
    /\ \E f \in Steps : mem.pc[f] = "cancelled" /\ mem.cancelReq[f]
    /\ \E s \in Steps : mem.pc[s] = "script"
    /\ mem.runners = 1

\* _cookCheckoutStep runs from its call to its first await in this step
cooksCheckout == mem.pc = "idle" /\ mem'.pc /= "idle"

\* one of the five conditions holds of the options and of what is stored
storedAsks ==
    \/ cfg.force
    \/ ~cfg.deterministic
    \/ disk.resultHash = PyNone
    \/ checkoutStateOf(cfg) /= disk.dirState
    \/ disk.depHash /= disk.inputHashes

\* --clean-checkout finds a recorded, unchanged SCM directory dirty
dirtyAsks ==
    /\ cfg.cleanCheckout
    /\ \E x \in ScmDirs : /\ disk.dirState[2][x] /= "absent"
                          /\ disk.dirState[2][x] = cfg.scm[x]
                          /\ isDirty(disk.ws, x)

\* the path "sub" exists, is not recorded, and the recipe checks out into it
newDirExists ==
    /\ cfg.scm["sub"] /= "absent"
    /\ disk.dirState[2]["sub"] = "absent"
    /\ pathExists(disk.ws, "sub")

\* C32 as stated: outside build-only mode the checkout script is run if
\* and only if force is set, the step is non-deterministic, no result hash
\* is stored, the new checkout state differs from the stored directory
\* state, or the dependency result hashes differ from the stored input
\* hashes.
C32_RunIffAsked ==
    [][cooksCheckout /\ ~cfg.buildOnly => (mem'.pc = "script" <=> storedAsks)]_vars

\* C32 amended: the script is run if and only if one of the five holds or
\* --clean-checkout finds a recorded directory dirty, and no new SCM
\* directory collides with an existing path; with a collision the step
\* fails; otherwise the checkout is skipped.
C32_RunIffAskedAndFree ==
    [][cooksCheckout /\ ~cfg.buildOnly =>
         LET asked == storedAsks \/ dirtyAsks
             hit == newDirExists /\ "." \notin hist'.moved
         IN  /\ mem'.pc = "script" <=> (asked /\ ~hit)
             /\ mem'.pc = "failed" <=> (asked /\ hit)
             /\ mem'.pc = "done" <=> ~asked]_vars

\* the script runs in a later run for no other reason than a directory
\* that --clean-checkout found dirty
C32_RunBecauseDirty ==
    /\ hist.run > 1 /\ mem.pc = "script" /\ cfg.cleanCheckout
    /\ cfg.deterministic /\ ~cfg.force
    /\ hist.before.dirState = checkoutStateOf(cfg)
    /\ disk.inputHashes = disk.depHash
    /\ disk.resultHash = Sentinel
    /\ "sub" \in hist.moved

\* the recorded SCM directory x is gone from the recipe, has another digest
\* there, or is found dirty by --clean-checkout
outdated(x) ==
    /\ disk.dirState[2][x] /= "absent"
    /\ \/ disk.dirState[2][x] /= cfg.scm[x]
       \/ cfg.cleanCheckout /\ isDirty(disk.ws, x)

\* C33: when the script of a re-run checkout starts, every recorded SCM
\* directory that is outdated and existed on disk lies in the attic with
\* the content it had, its path in the workspace is free, and its old
\* digest is no longer stored; nothing ever leaves the attic.
C33_MovedBeforeRerun ==
    [][/\ cooksCheckout /\ mem'.pc = "script" =>
            \A x \in ScmDirs : outdated(x) =>
                /\ pathExists(disk.ws, x) =>
                      /\ <<x, contentAt(disk.ws, x)>> \in disk'.attic
                      /\ contentAt(disk'.ws, x) = NoContent
                /\ x \in hist'.moved
                /\ disk'.dirState = DirState(cfg.scm, NoKey)
       /\ disk.attic \subseteq disk'.attic]_vars

\* the recipe names another digest for "sub" than the one that was checked
\* out; the old directory lies in the attic and the script runs
C33_ChangedScmMoved ==
    /\ hist.run > 1 /\ mem.pc = "script" /\ ~cfg.cleanCheckout
    /\ hist.before.dirState[2]["sub"] = "d1" /\ cfg.scm["sub"] = "d2"
    /\ hist.before.ws /= Absent /\ hist.before.ws[3] = ScmContent("d1")
    /\ <<"sub", ScmContent("d1")>> \in disk.attic
    /\ disk.ws[3] = NoContent

\* C34: when the checkout is not skipped and the path of a new SCM
\* directory other than "." exists after the outdated directories were
\* moved away, the step fails before the script runs; the new directory is
\* not recorded, the path is as it was, and so a further run that is not
\* skipped fails in the same way.
C34_CollisionFails ==
    /\ [][cooksCheckout /\ ~(cfg.buildOnly /\ disk.resultHash /= PyNone)
             /\ newDirExists /\ "." \notin hist'.moved
          => /\ mem'.pc = "failed" /\ hist'.outcome = "error"
             /\ disk'.dirState[2]["sub"] = "absent"
             /\ disk'.ws /= Absent /\ disk'.ws[3] = disk.ws[3]
             /\ disk'.resultHash = disk.resultHash]_vars
    /\ [](mem.pc = "failed" /\ hist.outcome = "error" =>
             /\ cfg.scm["sub"] /= "absent"
             /\ disk.dirState[2]["sub"] = "absent"
             /\ pathExists(disk.ws, "sub"))

\* the user created the path "sub", the recipe checks out an SCM into it,
\* and the step has failed in two runs in a row
C34_CollidedAgain ==
    /\ hist.run = MaxCheckouts /\ hist.collided
    /\ mem.pc = "failed" /\ hist.outcome = "error"
    /\ disk.ws /= Absent /\ disk.ws[3] = UserContent
    /\ disk.dirState[2]["sub"] = "absent"

\* what packageBuildId holds: None, or a build-id
isBuildId(v) == v = PyNone \/ v[1] = "bid"

\* C35: the stored input hashes of a package workspace are absent, or a
\* bare build-id while the workspace holds what was downloaded for that
\* build-id, or a list of a build-id and the result hashes of the checkout
\* and dependency steps while the workspace holds what was packaged from
\* them; a package step that ended after its script ran has stored the
\* list of the current result hashes, one that ended after a download the
\* bare build-id; and a step is skipped as already downloaded only over a
\* bare build-id.
C35_InputHashesForm ==
    /\ [](\A s \in Steps : isPackageStep(s) =>
            LET ih == disk.inputHashes[s]
                inputs == getCheckoutStep(s) \o getAllDepSteps(s)
            IN  /\ \/ ih = PyNone
                   \/ isBytes(ih) /\ isBuildId(ih[2]) /\ ih[2] /= PyNone
                                  /\ disk.ws[s] = Downloaded(s, ih[2])
                   \/ /\ isList(ih) /\ Len(ih[2]) = 1 + Len(inputs)
                      /\ isBuildId(ih[2][1])
                      /\ disk.ws[s] = Out(s, PyList(Tail(ih[2])))
                /\ mem.pc[s] = "ok" /\ hist.cooked[s] = "exec" =>
                      /\ isList(ih)
                      /\ PyList(Tail(ih[2])) = resultHashes(disk, inputs)
                /\ mem.pc[s] = "ok" /\ hist.cooked[s] \in {"download", "dlskip"} =>
                      isBytes(ih))
    /\ [][\A s \in Steps :
            isPackageStep(s) /\ hist'.cooked[s] = "dlskip" /\ hist.cooked[s] /= "dlskip"
            => isBytes(disk.inputHashes[s]) /\ disk'.inputHashes[s] = disk.inputHashes[s]]_vars

\* a second process tried to download the package, did not get it, and
\* packaged it locally: the list starts with the build-id of the package
C35_BuiltAfterMiss ==
    /\ hist.run = 2 /\ mem.phase = "end" /\ hist.outcome = "ok"
    /\ hist.cooked["a_dist"] = "exec" /\ mem.loc["a_dist"].dl = "miss"
    /\ isList(disk.inputHashes["a_dist"])
    /\ disk.inputHashes["a_dist"][2][1] = mem.loc["a_dist"].bid
    /\ mem.loc["a_dist"].bid /= PyNone

\* the script of step s is started in this step
scriptStarts(s) == mem.pc[s] /= "script" /\ mem'.pc[s] = "script"

\* C36: the checkout script of a workspace is started at most once in a
\* run of cook(), whatever the number of its passes, and the build or
\* package script of a workspace at most once in a pass.
C36_ScriptOnce ==
    [][\A s \in Steps : scriptStarts(s) =>
          /\ s \notin hist.ranInPass
          /\ isCheckoutStep(s) => hist.nScript[s] = 0]_vars

\* the second pass of a run with two jobs: the checkout script and the
\* package script of lib ran in the first pass and are not run again, the
\* build script runs for the first time
C36_SecondPassBuilds ==
    /\ cfg.jobs = 2 /\ hist.pass = 2 /\ mem.phase = "run"
    /\ mem.pc["a_build"] = "script" /\ hist.ranInPass = {"a_build"}
    /\ hist.nScript["a_src"] = 1 /\ mem.pc["a_src"] = "none"
    /\ hist.nScript["l_dist"] = 1 /\ hist.cooked["l_dist"] = "skip_unchanged"

\* the checkout steps whose cached src-build-id is not predicted
unpredicted ==
    {c \in Steps : /\ isCheckoutStep(c) /\ mem.srcBuildIds[c] /= PyNone
                   /\ ~mem.srcBuildIds[c][2]}

\* C37: a src-build-id that is not predicted is the stored hash of the
\* checkout (the assertion of line 1128 holds); a pass is followed by
\* another only after a predicted src-build-id gave way to the real hash of
\* a checkout that is marked as run; the passes of a run are at most one
\* more than the checkout steps whose prediction was given up.
C37_RestartsBounded ==
    /\ [](\A c \in unpredicted :
             /\ isContentHash(disk.resultHash[c])
             /\ mem.srcBuildIds[c][1] = disk.resultHash[c])
    /\ [][mem'.srcBuildIds /= mem.srcBuildIds /\ mem.phase = "run" /\ mem'.phase = "run" =>
             \E s \in Steps :
                /\ isCheckoutStep(s)
                /\ mem'.srcBuildIds = [mem.srcBuildIds EXCEPT ![s] = mem'.srcBuildIds[s]]
                /\ \/ mem.srcBuildIds[s] = PyNone
                   \/ /\ mem.srcBuildIds[s][2]
                      /\ mem'.srcBuildIds[s] = <<disk'.resultHash[s], FALSE>>]_vars
    /\ [][hist'.pass = hist.pass + 1 =>
             /\ \E c \in unpredicted : mem.wasRun[c] = getVariantId(c)
             /\ mem'.srcBuildIds = mem.srcBuildIds]_vars
    /\ [](hist.pass <= 1 + Cardinality(unpredicted))

\* the second pass has ended well: the prediction was given up for the
\* real hash and no further restart was asked for
C37_SecondPassEnds ==
    /\ hist.pass = 2 /\ mem.phase = "end" /\ hist.outcome = "ok"
    /\ cfg.translation = "wrong"
    /\ unpredicted = {"a_src"}
    /\ hist.nScript["a_src"] = 1

\* the checkout of a_src ran and raised RestartBuildException in this pass
restartRaised == mem.pc["a_src"] = "failed" /\ hist.cooked["a_src"] = "exec"

\* C38: a further pass begins only after a pass that collected no error
\* and set the restart flag; a pass that collected an error ends cook()
\* with that error, whatever the restart flag; the restart flag is set
\* only while running is set, and clears it; after SIGINT it stays clear.
C38_RestartOnlyWithoutError ==
    /\ [][hist'.pass = hist.pass + 1 => mem.buildErrors = <<>> /\ mem.restart]_vars
    /\ [][(/\ mem.phase = "run" /\ mem.buildErrors /= <<>>
           /\ mem'.phase = "end" \/ hist'.pass /= hist.pass)
             => /\ mem'.phase = "end" /\ hist'.outcome = "error"
                /\ hist'.pass = hist.pass /\ hist'.raised /= PyNone]_vars
    /\ [][~mem.restart /\ mem'.restart => mem.running /\ ~mem'.running]_vars
    /\ [](mem.phase = "run" /\ hist.sigint => ~mem.restart)
    /\ [](mem.phase = "run" /\ mem.restart => ~mem.running)

\* with keep-going a script failed and the checkout asked for a restart in
\* the same pass: cook() has raised the error, there was no second pass
C38_ErrorBeatsRestart ==
    /\ mem.phase = "end" /\ hist.outcome = "error" /\ hist.pass = 1
    /\ cfg.keepGoing /\ mem.restart /\ restartRaised
    /\ mem.buildErrors /= <<>>

\* C39: in checkout-only mode with more than one job, while the script of a
\* checkout step runs, none of its dependencies was left out by a task that
\* cooked it as checkout-only: every one was executed or skipped as
\* unchanged (or downloaded), as with one job.
C39_ToolNotSkippedByMode ==
    cfg.checkoutOnly /\ cfg.jobs > 1 /\ ~cfg.skipDeps =>
        \A s \in Steps :
            isCheckoutStep(s) /\ scriptRuns(s) =>
                \A d \in Range(getAllDepSteps(s)) :
                    /\ hist.cooked[d] /= "skip_mode"
                    /\ hist.cooked[d] \in Good

\* the cook of a dependency of s has failed or was cancelled in this pass
depFailed(s) == \E d \in Range(getAllDepSteps(s)) : mem.pc[d] \in {"failed", "cancelled"}

\* C40: the script of a build or package step does not start while the
\* cook of one of its dependencies has failed or was cancelled in the pass;
\* a step whose wait for its dependencies ends with an exception or a
\* cancellation ends without script and without mark, and a build step
\* leaves its stored input hashes and result hash as they were.
C40_NoScriptAfterFailedDep ==
    /\ [][\A s \in Steps :
             ~isCheckoutStep(s) /\ scriptStarts(s) => ~depFailed(s) /\ ~depFailed(s)']_vars
    /\ [][\A s \in Steps :
             /\ ~isCheckoutStep(s) /\ mem.phase = "run" /\ mem.pc[s] = "deps"
             /\ mem.childExc[s] /= "none" \/ mem.cancelReq[s] \/ depFailed(s)
             /\ mem'.pc[s] /= "deps"
             => /\ mem'.pc[s] \in {"failed", "cancelled", "none"}
                /\ mem'.wasRun[s] = mem.wasRun[s]
                /\ mem'.wasSkipped[s] = mem.wasSkipped[s]
                /\ hist'.nScript[s] = hist.nScript[s]
                /\ isBuildStep(s) => /\ disk'.inputHashes[s] = disk.inputHashes[s]
                                     /\ disk'.resultHash[s] = disk.resultHash[s]]_vars

\* with keep-going and two jobs the tool failed: the checkout that uses it
\* and the build above them have ended without script and without mark,
\* and the store knows nothing of the build
C40_BuildGaveUp ==
    /\ cfg.keepGoing /\ cfg.jobs = 2 /\ ~cfg.checkoutOnly
    /\ mem.phase = "run" /\ mem.running
    /\ mem.pc["t_dist"] = "failed"
    /\ mem.pc["a_build"] = "failed"
    /\ mem.wasRun["a_build"] = PyNone /\ hist.nScript["a_build"] = 0
    /\ disk.inputHashes["a_build"] = PyNone /\ disk.resultHash["a_build"] = PyNone

====
